---- MODULE Spec2Model ----
(***************************************************************************)
(* Import & categorization pipeline of budget-finance.                     *)
(*                                                                         *)
(*   services/categorizer.ts   categorizeTransactions,                     *)
(*                             recategorizeUncategorizedTransactions       *)
(*   services/aiClient.ts      getCategoryBatchFromAIService               *)
(*   api handler / ai server   validateAndFilterResults                    *)
(*                                                                         *)
(* Arrays are sequences: element k of a sequence is element k-1 of the     *)
(* JavaScript array, and a classifier index k stands for originalIndex k-1.*)
(* Strings that are matched (descriptions, rule values) are sequences of   *)
(* characters, so that toLowerCase, includes and startsWith are computed.  *)
(***************************************************************************)
EXTENDS Integers, Sequences, FiniteSets, TLC

\* ------------------------------------------------------------------ bounds
MaxTxns == 2        \* rows handed to one pipeline invocation
MaxRules == 2       \* length of the rule list
MaxResp == 2        \* entries in one classifier answer
MaxStored == 1      \* largest batch size stored in localStorage

\* --------------------------------------------------------------- constants
DEFAULT_AI_BATCH_SIZE == 50

Null == "null"                         \* JavaScript null / undefined
Uncategorized == "cat-uncategorized"
Bogus == "cat-doesnotexist"            \* an id no catalog holds

\* ----------------------------------------------------------------- strings
ToLowerChar(c) ==
    CASE c = "S" -> "s"
      [] c = "T" -> "t"
      [] c = "B" -> "b"
      [] c = "D" -> "d"
      [] c = "M" -> "m"
      [] c = "A" -> "a"
      [] OTHER -> c

\* String.prototype.toLowerCase on a character sequence
ToLowerCase(s) == [k \in 1..Len(s) |-> ToLowerChar(s[k])]

\* String.prototype.includes
Includes(d, v) ==
    \E k \in 0..(Len(d) - Len(v)) : SubSeq(d, k + 1, k + Len(v)) = v

\* String.prototype.startsWith
StartsWith(d, v) == Len(v) <= Len(d) /\ SubSeq(d, 1, Len(v)) = v

\* Category names are whole strings; toLowerCase is tabulated on the names
\* the catalogs below use.
NameToLowerCase(n) ==
    CASE n = "Income" -> "income"
      [] n = "INCOME" -> "income"
      [] n = "Groceries" -> "groceries"
      [] n = "Dining" -> "dining"
      [] n = "Uncategorized" -> "uncategorized"
      [] OTHER -> n

\* ------------------------------------------------------------- rule engine
\* the switch on rule.conditionType inside the rule loop
RuleMatches(rule, descriptionLower) ==
    LET valueLower == ToLowerCase(rule.conditionValue) IN
    CASE rule.conditionType = "contains" -> Includes(descriptionLower, valueLower)
      [] rule.conditionType = "startsWith" -> StartsWith(descriptionLower, valueLower)
      [] rule.conditionType = "equals" -> descriptionLower = valueLower
      [] OTHER -> FALSE

\* the for..of loop over rules with its break: scans from position j on and
\* returns <<categorizedByRule, categoryId>>
RECURSIVE RuleScan(_, _, _)
RuleScan(rules, descriptionLower, j) ==
    IF j > Len(rules) THEN <<FALSE, Null>>
    ELSE IF RuleMatches(rules[j], descriptionLower)
         THEN <<TRUE, rules[j].categoryId>>
         ELSE RuleScan(rules, descriptionLower, j + 1)

\* a scan without the break: the last matching rule wins
RECURSIVE RuleScanNoBreak(_, _, _)
RuleScanNoBreak(rules, descriptionLower, j) ==
    IF j > Len(rules) THEN <<FALSE, Null>>
    ELSE LET rest == RuleScanNoBreak(rules, descriptionLower, j + 1) IN
         IF rest[1] THEN rest
         ELSE IF RuleMatches(rules[j], descriptionLower)
              THEN <<TRUE, rules[j].categoryId>>
              ELSE <<FALSE, Null>>

ApplyRulesLastWins(rules, description) ==
    RuleScanNoBreak(rules, ToLowerCase(description), 1)

ApplyRules(rules, description) == RuleScan(rules, ToLowerCase(description), 1)

\* ------------------------------------------------------------ catalog data
CatU == [id |-> Uncategorized, name |-> "Uncategorized"]
CatG == [id |-> "cat-groceries", name |-> "Groceries"]
CatD == [id |-> "cat-dining", name |-> "Dining"]
CatI == [id |-> "cat-income", name |-> "Income"]

\* the catalogs a pipeline invocation may be handed
Catalogs == { <<CatU, CatG, CatD, CatI>>, <<CatU, CatG, CatD>> }

CategoryIds(cats) == { cats[k].id : k \in 1..Len(cats) }

\* categoryNameToIdMap.get(key): the map is filled by forEach/set, so the
\* last category with that lower-cased name wins
NameToId(cats, key) ==
    LET hits == { k \in 1..Len(cats) : NameToLowerCase(cats[k].name) = key } IN
    IF hits = {} THEN Null
    ELSE cats[CHOOSE k \in hits : \A m \in hits : m <= k].id

\* x || 'cat-uncategorized'
OrUncategorized(categoryId) ==
    IF categoryId = Null \/ categoryId = "" THEN Uncategorized ELSE categoryId

\* ------------------------------------------------------- classifier service
\* validateAndFilterResults(raw, categories) of the service: keeps the
\* entries whose categoryId is in the catalog of the request.  Entries are
\* well-typed objects here, so the typeof tests pass.
ValidateNoCatalogCheck(raw, cats) == raw

ValidateAndFilterResults(raw, cats) ==
    LET allowed == CategoryIds(cats) IN
    SelectSeq(raw, LAMBDA item : item.categoryId \in allowed)

\* the for loop of getCategoryBatchFromAIService filling resultMap:
\* Map.set, so the last entry of an index wins
ResultMap(results) ==
    LET idx == { results[k].index : k \in 1..Len(results) } IN
    [ x \in idx |->
        results[CHOOSE k \in 1..Len(results) :
                   /\ results[k].index = x
                   /\ \A m \in 1..Len(results) : results[m].index = x => m <= k].categoryId ]

EmptyMap == [ x \in {} |-> Null ]

\* aiResults.get(index) || null
MapGet(m, x) == IF x \in DOMAIN m /\ m[x] # "" THEN m[x] ELSE Null

\* --------------------------------------------------------------- input data
\* rows a statement file may hold (date, description, amount); rawDate is
\* carried along with date and is left out
D1 == "2024-02-01T00:00:00.000Z"
D2 == "2024-02-02T00:00:00.000Z"

ParsedPool ==
    { [date |-> D1, description |-> <<"S", "t">>,      amount |-> 50],
      [date |-> D2, description |-> <<"t", "S", "t">>, amount |-> 0],
      [date |-> D2, description |-> <<"b">>,           amount |-> -50] }

\* rules as the rule form saves them: conditionValue and categoryId non-empty
RulePool ==
    { [id |-> "r1", conditionType |-> "contains",   conditionValue |-> <<"S", "T">>,
       categoryId |-> "cat-groceries"],
      [id |-> "r2", conditionType |-> "startsWith", conditionValue |-> <<"t">>,
       categoryId |-> "cat-dining"],
      [id |-> "r3", conditionType |-> "equals",     conditionValue |-> <<"s", "T">>,
       categoryId |-> "cat-income"] }

SeqsUpTo(S, n) == UNION { [1..k -> S] : k \in 0..n }

\* rule lists: a rule occurs once in the list
RuleLists ==
    { rs \in SeqsUpTo(RulePool, MaxRules) : \A a, b \in 1..Len(rs) : rs[a] = rs[b] => a = b }

\* `txn-${Date.now()}-${index}`
TxnId(clock, index) == [t |-> clock, k |-> index]

\* a persisted, currently uncategorized transaction made of a row
Persisted(row, id) ==
    [id |-> id, date |-> row.date, description |-> row.description, amount |-> row.amount,
     categoryId |-> Uncategorized, categorizedByRule |-> FALSE, categorizedByAI |-> FALSE]

\* getBatchSize(): the stored value when it parses to a positive number
\* (stored = 0 stands for a missing or unusable entry)
getBatchSize(stored) == IF stored > 0 THEN stored ELSE DEFAULT_AI_BATCH_SIZE

\* --------------------------------------------------------- pipeline helpers
Hole == [hole |-> TRUE]                \* an array slot never assigned

\* the object literal both paths build for an item: the import path creates
\* the id and spreads the parsed row, the recategorize path spreads the
\* stored transaction and so keeps its id
MakeTransaction(m, item, index, clock, categoryId, byRule, byAI) ==
    IF m = "import"
    THEN [id |-> TxnId(clock, index), date |-> item.date,
          description |-> item.description, amount |-> item.amount,
          categoryId |-> OrUncategorized(categoryId),
          categorizedByRule |-> byRule, categorizedByAI |-> byAI]
    ELSE [item EXCEPT !.categoryId = OrUncategorized(categoryId),
                      !.categorizedByRule = byRule,
                      !.categorizedByAI = byAI]

\* first pass, slot `index`: the transaction when a rule matched, else a hole
RuleSlot(m, item, index, clock, rs) ==
    LET r == ApplyRules(rs, item.description) IN
    IF r[1] THEN MakeTransaction(m, item, index, clock, r[2], TRUE, FALSE)
    ELSE Hole

\* first pass, the list handed to the classifier: { tx, index } in input order
RECURSIVE ForAI(_, _, _)
ForAI(items, rs, k) ==
    IF k > Len(items) THEN <<>>
    ELSE IF ApplyRules(rs, items[k].description)[1]
         THEN ForAI(items, rs, k + 1)
         ELSE <<[tx |-> items[k], index |-> k]>> \o ForAI(items, rs, k + 1)

\* a slice with its end taken inclusive: one item too many
SliceInclusive(arr, from, size) ==
    SubSeq(arr, from + 1, IF from + size + 1 > Len(arr) THEN Len(arr) ELSE from + size + 1)

\* Array.prototype.slice(i, i + size), i counted from 0
Slice(arr, from, size) ==
    SubSeq(arr, from + 1, IF from + size > Len(arr) THEN Len(arr) ELSE from + size)

\* body of batch.forEach for one item: <<categoryId, categorizedByAI>>
AiCategoryAnySign(amount, index, results, cats) ==
    LET fromAI == MapGet(results, index)
        incomeCategoryId == NameToId(cats, "income")
    IN  <<IF fromAI = Null /\ incomeCategoryId # Null
          THEN incomeCategoryId ELSE fromAI,
          fromAI # Null>>

AiCategory(amount, index, results, cats) ==
    LET fromAI == MapGet(results, index)
        incomeCategoryId == NameToId(cats, "income")
    IN  <<IF fromAI = Null /\ amount > 0 /\ incomeCategoryId # Null
          THEN incomeCategoryId ELSE fromAI,
          fromAI # Null>>

\* a merge that walks the answer instead of the batch: every entry of the
\* answer lands in the slot its index names
MergeBatchByAnswer(m, final, b, results, cats, clock) ==
    [ k \in 1..Len(final) |->
        IF k \in DOMAIN results
        THEN [id |-> TxnId(clock, k), date |-> D1, description |-> <<>>, amount |-> 0,
              categoryId |-> results[k], categorizedByRule |-> FALSE,
              categorizedByAI |-> TRUE]
        ELSE IF \E j \in 1..Len(b) : b[j].index = k
             THEN LET t == b[CHOOSE j \in 1..Len(b) : b[j].index = k]
                      c == AiCategory(t.tx.amount, k, results, cats)
                  IN  MakeTransaction(m, t.tx, k, clock, c[1], FALSE, c[2])
             ELSE final[k] ]

\* a merge that writes item j of the batch to slot j
MergeBatchByPosition(m, final, b, results, cats, clock) ==
    [ k \in 1..Len(final) |->
        IF k <= Len(b)
        THEN LET c == AiCategory(b[k].tx.amount, b[k].index, results, cats)
             IN  MakeTransaction(m, b[k].tx, b[k].index, clock, c[1], FALSE, c[2])
        ELSE final[k] ]

\* batch.forEach(...): the array after the answer of one batch is merged
MergeBatch(m, final, b, results, cats, clock) ==
    [ k \in 1..Len(final) |->
        IF \E j \in 1..Len(b) : b[j].index = k
        THEN LET t == b[CHOOSE j \in 1..Len(b) : b[j].index = k]
                 c == AiCategory(t.tx.amount, k, results, cats)
             IN  MakeTransaction(m, t.tx, k, clock, c[1], FALSE, c[2])
        ELSE final[k] ]

\* recategorize only: "fill any untouched slots with original tx"
FillUntouched(m, final, items) ==
    IF m = "import" THEN final
    ELSE [ k \in 1..Len(final) |-> IF final[k] = Hole THEN items[k] ELSE final[k] ]

\* -------------------------------------------------------------------- state
VARIABLES
    mode,               \* "import": categorizeTransactions,
                        \* "recat": recategorizeUncategorizedTransactions
    parsedTransactions, \* the input array (recat: uncategorized)
    rules,              \* the rule list the invocation was handed
    categories,         \* the catalog the invocation was handed
    batchSize,          \* const batchSize = getBatchSize()
    finalTransactions,  \* the result array (recat: updated)
    transactionsForAI,  \* rule-unmatched items (recat: toSendToAI)
    i,                  \* loop offset into transactionsForAI
    processedCount,
    progress,           \* the onProgress calls so far, <<processed, total>>
    batch,              \* the batch of the current loop iteration
    aiResults,          \* the Map the classifier call of this iteration returned
    outcomes,           \* how each classifier request ended, in request order
    requests,           \* classifier requests issued so far
    sentToAI,           \* indices that were part of some request
    returned,           \* what the caller got: "pending", "rejected" or the array
    pc,                 \* position of the invocation
    now                 \* Date.now()

pipeVars == <<mode, parsedTransactions, rules, categories, batchSize,
              finalTransactions, transactionsForAI, i, processedCount, progress,
              batch, aiResults, outcomes, requests, sentToAI, returned, pc>>

\* the application around the pipeline: the IndexedDB stores, the React state
\* of DataProvider and of the Upload page, and the asynchronous calls of
\* DataProvider that are under way
VARIABLES
    dbTransactions,     \* object store "transactions", keyed by id
    dbRules,            \* object store "rules", keyed by id
    stTransactions,     \* DataProvider state `transactions`
    stRules,            \* DataProvider state `rules`
    preview,            \* Upload state `categorizedTransactions`
    uploadError,        \* Upload state `error`
    adding,             \* addTransactions under way
    recategorizing,     \* recategorizeUncategorizedWithAI under way
    resetting           \* resetAllData under way

\* the categories and budgets of the stores and of DataProvider, and the
\* DataProvider calls that edit the ledger
VARIABLES
    dbCategories,       \* object store "categories", keyed by id
    dbBudgets,          \* object store "budgets", keyed by id
    stCategories,       \* DataProvider state `categories`
    applying,           \* applyRuleToTransactions under way
    deleting,           \* deleteCategory under way
    addingRule          \* addRule under way

\* a call of the statement parser: what it is handed and what it gives back
VARIABLES
    parseInput,
    parseOutput

parserVars == <<parseInput, parseOutput>>

\* the calls of the database service on the rules store that are between
\* their read and their write
VARIABLES
    ruleCalls

sideVars == <<parserVars, ruleCalls>>

extVars == <<dbCategories, dbBudgets, stCategories, applying, deleting, addingRule,
             sideVars>>

appVars == <<dbTransactions, dbRules, stTransactions, stRules, preview, uploadError,
             adding, recategorizing, resetting, extVars>>

vars == <<pipeVars, now, appVars>>

\* the classifier answers one batch may get: arrays of (index, categoryId),
\* indices of the request and foreign ones, ids of the catalog and not
RawEntries ==
    [index : 1..(MaxTxns + 1), categoryId : {"cat-groceries", Uncategorized, Bogus}]

RawAnswers == SeqsUpTo(RawEntries, MaxResp)

\* ---------------------------------------------------------------- pipeline
\* entry of either function up to the first onProgress call
StartPipeline(m, items, rs, cats, stored) ==
    LET forAI == ForAI(items, rs, 1) IN
    /\ mode' = m
    /\ parsedTransactions' = items
    /\ rules' = rs
    /\ categories' = cats
    /\ batchSize' = getBatchSize(stored)
    /\ finalTransactions' = [ k \in 1..Len(items) |-> RuleSlot(m, items[k], k, now, rs) ]
    /\ transactionsForAI' = forAI
    /\ i' = 0
    /\ processedCount' = Len(items) - Len(forAI)
    /\ progress' = <<<<Len(items) - Len(forAI), Len(items)>>>>
    /\ batch' = <<>>
    /\ aiResults' = EmptyMap
    /\ outcomes' = <<>>
    /\ requests' = 0
    /\ sentToAI' = {}
    /\ returned' = "pending"
    /\ pc' = "loop"

\* a loop that does not await: the next request leaves while one is outstanding
SendBatchNoAwait ==
    /\ pc \in {"loop", "fetching"}
    /\ i < Len(transactionsForAI)
    /\ batch' = Slice(transactionsForAI, i, batchSize)
    /\ sentToAI' = sentToAI \cup { batch'[j].index : j \in 1..Len(batch') }
    /\ requests' = requests + 1
    /\ aiResults' = EmptyMap
    /\ pc' = "fetching"
    /\ UNCHANGED <<mode, parsedTransactions, rules, categories, batchSize,
                   finalTransactions, transactionsForAI, i, processedCount, progress,
                   outcomes, returned, now, appVars>>

\* loop head with i < length: slice the batch and call fetch
SendBatch ==
    /\ pc = "loop"
    /\ i < Len(transactionsForAI)
    /\ batch' = Slice(transactionsForAI, i, batchSize)
    /\ sentToAI' = sentToAI \cup { batch'[j].index : j \in 1..Len(batch') }
    /\ requests' = requests + 1
    /\ aiResults' = EmptyMap
    /\ pc' = "fetching"
    /\ UNCHANGED <<mode, parsedTransactions, rules, categories, batchSize,
                   finalTransactions, transactionsForAI, i, processedCount, progress,
                   outcomes, returned, now, appVars>>

\* a loop body that leaves out its onProgress call
AfterAwaitNoProgress(results) ==
    /\ aiResults' = results
    /\ finalTransactions' =
         MergeBatch(mode, finalTransactions, batch, results, categories, now)
    /\ processedCount' = processedCount + Len(batch)
    /\ i' = i + batchSize
    /\ pc' = "loop"
    /\ UNCHANGED <<mode, parsedTransactions, rules, categories, batchSize,
                   transactionsForAI, batch, requests, sentToAI, returned, now,
                   progress, appVars>>

\* the rest of the loop body once getCategoryBatchFromAI has returned `results`:
\* batch.forEach, processedCount += batch.length, onProgress
AfterAwait(results) ==
    /\ aiResults' = results
    /\ finalTransactions' =
         MergeBatch(mode, finalTransactions, batch, results, categories, now)
    /\ processedCount' = processedCount + Len(batch)
    /\ progress' = Append(progress, <<processedCount + Len(batch), Len(parsedTransactions)>>)
    /\ i' = i + batchSize
    /\ pc' = "loop"
    /\ UNCHANGED <<mode, parsedTransactions, rules, categories, batchSize,
                   transactionsForAI, batch, requests, sentToAI, returned, now,
                   appVars>>

\* what getCategoryBatchFromAIService can return on a 200: the service
\* decoded some model output `raw`, filtered it against the catalog of the
\* request, and the client filled resultMap from what was left
OkResultsFor(cats) ==
    { ResultMap(ValidateAndFilterResults(raw, cats)) : raw \in RawAnswers }

\* the same, tabulated once for the catalogs of the pool
OkResultsTable == [ cats \in Catalogs |-> OkResultsFor(cats) ]

OkResults(cats) == IF cats \in Catalogs THEN OkResultsTable[cats] ELSE OkResultsFor(cats)

\* the request is answered 200 and the loop body runs to its end
RespondOk ==
    /\ pc = "fetching"
    /\ outcomes' = Append(outcomes, "ok")
    /\ \E results \in OkResults(categories) : AfterAwait(results)

\* a non-2xx answer made to end the invocation
RespondNotOkThrows ==
    /\ pc = "fetching"
    /\ outcomes' = Append(outcomes, "http")
    /\ returned' = "rejected"
    /\ pc' = "failed"
    /\ UNCHANGED <<mode, parsedTransactions, rules, categories, batchSize,
                   finalTransactions, transactionsForAI, i, processedCount, progress,
                   batch, aiResults, requests, sentToAI, now, appVars>>

\* !resp.ok (the service answers 400, 405 or 500): return new Map(), and the
\* loop body runs to its end
RespondNotOk ==
    /\ pc = "fetching"
    /\ outcomes' = Append(outcomes, "http")
    /\ AfterAwait(EmptyMap)

\* fetch rejects, or resp.json() rejects on a 2xx body that is not JSON:
\* nothing catches it, neither in getCategoryBatchFromAIService nor in the
\* pipeline, so the invocation's promise rejects
NetworkFailure ==
    /\ pc = "fetching"
    /\ \E how \in {"reject", "badbody"} : outcomes' = Append(outcomes, how)
    /\ returned' = "rejected"
    /\ pc' = "failed"
    /\ UNCHANGED <<mode, parsedTransactions, rules, categories, batchSize,
                   finalTransactions, transactionsForAI, i, processedCount, progress,
                   batch, aiResults, requests, sentToAI, now, appVars>>

\* loop head with i >= length: (recat: fill untouched slots,) return
Return ==
    /\ pc = "loop"
    /\ i >= Len(transactionsForAI)
    /\ finalTransactions' = FillUntouched(mode, finalTransactions, parsedTransactions)
    /\ returned' = finalTransactions'
    /\ pc' = "done"
    /\ UNCHANGED <<mode, parsedTransactions, rules, categories, batchSize,
                   transactionsForAI, i, processedCount, progress, batch, aiResults,
                   outcomes, requests, sentToAI, now, appVars>>

\* ------------------------------------------------- specification: one call
\* One invocation of either pipeline function on inputs drawn from the pools.
Idle ==
    /\ mode = "none"
    /\ parsedTransactions = <<>>
    /\ rules = <<>>
    /\ categories = <<>>
    /\ batchSize = DEFAULT_AI_BATCH_SIZE
    /\ finalTransactions = <<>>
    /\ transactionsForAI = <<>>
    /\ i = 0
    /\ processedCount = 0
    /\ progress = <<>>
    /\ batch = <<>>
    /\ aiResults = EmptyMap
    /\ outcomes = <<>>
    /\ requests = 0
    /\ sentToAI = {}
    /\ returned = "pending"
    /\ pc = "idle"

NoCall == [stage |-> "none"]

\* the application at rest on empty stores
AppIdle ==
    /\ dbTransactions = {}
    /\ dbRules = {}
    /\ stTransactions = {}
    /\ stRules = <<>>
    /\ preview = <<>>
    /\ uploadError = Null
    /\ adding = NoCall
    /\ recategorizing = NoCall
    /\ resetting = NoCall
    /\ dbCategories = {}
    /\ dbBudgets = {}
    /\ stCategories = <<>>
    /\ applying = NoCall
    /\ deleting = NoCall
    /\ addingRule = NoCall
    /\ ruleCalls = {}

\* no file is being parsed
ParserIdle ==
    /\ parseInput = Null
    /\ parseOutput = Null

Init ==
    /\ Idle
    /\ now = 0
    /\ AppIdle
    /\ ParserIdle

\* the caller: rows for the import path, stored uncategorized transactions
\* (ids from an earlier import) for the recategorize path
Call ==
    /\ pc = "idle"
    /\ \E m \in {"import", "recat"}, rows \in SeqsUpTo(ParsedPool, MaxTxns),
          rs \in RuleLists, cats \in Catalogs, stored \in 0..MaxStored :
         StartPipeline(m,
                       IF m = "import" THEN rows
                       ELSE [ k \in 1..Len(rows) |-> Persisted(rows[k], TxnId(0, k)) ],
                       rs, cats, stored)
    /\ now' = 1
    /\ UNCHANGED appVars

Next ==
    \/ Call
    \/ SendBatch
    \/ RespondOk
    \/ RespondNotOk
    \/ NetworkFailure
    \/ Return

Spec == Init /\ [][Next]_vars

\* ------------------------------------------------------------- application
\* The Upload page, the Settings page and DataProvider around the pipeline.
\* Arrays of transactions held in a store or in React state are sets (their
\* order is only used where getTransactions sorts them); one pipeline call
\* and one call of each DataProvider function are under way at a time, and
\* localStorage holds no batch size.
MaxClock == 2       \* files picked: Date.now() is the number of the pick

WhiteSpace == {" ", "\t"}

RECURSIVE TrimStart(_)
TrimStart(s) ==
    IF s # <<>> /\ Head(s) \in WhiteSpace THEN TrimStart(Tail(s)) ELSE s

RECURSIVE TrimEnd(_)
TrimEnd(s) ==
    IF s # <<>> /\ s[Len(s)] \in WhiteSpace THEN TrimEnd(SubSeq(s, 1, Len(s) - 1)) ELSE s

\* String.prototype.trim
Trim(s) == TrimEnd(TrimStart(s))

\* replace(/\s+/g, ' ')
RECURSIVE CollapseWhiteSpace(_)
CollapseWhiteSpace(s) ==
    IF s = <<>> THEN <<>>
    ELSE IF Head(s) \in WhiteSpace
         THEN <<" ">> \o CollapseWhiteSpace(TrimStart(Tail(s)))
         ELSE <<Head(s)>> \o CollapseWhiteSpace(Tail(s))

\* normalize of handleFileSelect
normalize(s) == IF s = <<>> THEN <<>> ELSE CollapseWhiteSpace(ToLowerCase(Trim(s)))

\* the key `${date}|${amount}|${normalize(description)}`
Fingerprint(t) == <<t.date, t.amount, normalize(t.description)>>

Fingerprints(txns) == { Fingerprint(t) : t \in txns }

\* uniqueParsed: the parsed rows whose key is not in existingSet
UniqueParsed(parsed, existing) ==
    LET existingSet == Fingerprints(existing)
        IsNew(row) == Fingerprint(row) \notin existingSet
    IN  SelectSeq(parsed, IsNew)

\* store.put(t) for every t of the array, in one IndexedDB transaction
Put(store, txns) ==
    { t \in store : \A k \in 1..Len(txns) : txns[k].id # t.id }
      \cup { txns[k] : k \in { k \in 1..Len(txns) :
                                 \A j \in (k + 1)..Len(txns) : txns[j].id # txns[k].id } }

Ids(store) == { t.id : t \in store }

\* new Date(date).getTime()
GetTime(date) == IF date = D1 THEN 1 ELSE 2

\* getTransactions: getAll returns the records in key order and the sort by
\* date, most recent first, is stable
SortsBefore(a, b) ==
    \/ GetTime(a.date) > GetTime(b.date)
    \/ /\ GetTime(a.date) = GetTime(b.date)
       /\ \/ a.id.t < b.id.t
          \/ a.id.t = b.id.t /\ a.id.k < b.id.k

RECURSIVE getTransactions(_)
getTransactions(store) ==
    IF store = {} THEN <<>>
    ELSE LET first == CHOOSE t \in store : \A u \in store \ {t} : SortsBefore(t, u)
         IN  <<first>> \o getTransactions(store \ {first})

\* !t.categoryId || t.categoryId === 'cat-uncategorized'
IsUncategorized(t) == t.categoryId = Null \/ t.categoryId = Uncategorized

\* DEFAULT_CATEGORIES, the catalog of the stores (the categories the pools use)
DefaultCatalog == <<CatU, CatG, CatD, CatI>>

\* the categories store after initializeDefaultCategories found it empty
DefaultCategories == { DefaultCatalog[k] : k \in 1..Len(DefaultCatalog) }

\* DEFAULT_BUDGETS as initializeDefaultBudgets writes them: customPercent
\* null and updatedAt the time of the write
DefaultBudgets(clock) ==
    { [id |-> "budget-groceries", categoryId |-> "cat-groceries", customPercent |-> Null,
       updatedAt |-> clock],
      [id |-> "budget-dining", categoryId |-> "cat-dining", customPercent |-> Null,
       updatedAt |-> clock] }

\* the keys a categories store may hold, in key order: `cat-${Date.now()}`
\* of addCategory sorts before the default ids
CategoryKeyOrder == <<"cat-1", "cat-dining", "cat-groceries", "cat-income", Uncategorized>>

\* getCategories: getAll returns the records in key order
getCategories(store) ==
    LET present == SelectSeq(CategoryKeyOrder, LAMBDA id : \E c \in store : c.id = id)
    IN  [ k \in 1..Len(present) |-> CHOOSE c \in store : c.id = present[k] ]

\* the files the user picks, as parseFile returns them: the second repeats
\* the first row of the first with other case and spacing
Files ==
    { << [date |-> D1, description |-> <<"S", "t">>, amount |-> 50],
         [date |-> D2, description |-> <<"b">>, amount |-> -50] >>,
      << [date |-> D1, description |-> <<" ", "s", "T">>, amount |-> 50] >> }

\* the rules the rule form saves: the rule that matches the first rows of
\* Files
RuleForms == { r \in RulePool : r.id = "r1" }

\* { ...r, order }
WithOrder(r, order) ==
    [id |-> r.id, conditionType |-> r.conditionType, conditionValue |-> r.conditionValue,
     categoryId |-> r.categoryId, order |-> order]

\* the rules stores the application starts with: empty, or the rule of the
\* form as addRule stored it
StoredRules == { {} } \cup { { WithOrder(r, 1) } : r \in RuleForms }

\* the keys of the rules store in key order
RuleKeyOrder == <<"r1", "r2", "r3">>

KeyRank(keys, id) == CHOOSE k \in 1..Len(keys) : keys[k] = id

\* getRules: getAll returns the records in key order and the sort by
\* order, ascending, is stable
RECURSIVE getRules(_)
getRules(store) ==
    IF store = {} THEN <<>>
    ELSE LET Before(a, b) == \/ a.order < b.order
                             \/ /\ a.order = b.order
                                /\ KeyRank(RuleKeyOrder, a.id) < KeyRank(RuleKeyOrder, b.id)
             first == CHOOSE r \in store : \A u \in store \ {r} : Before(r, u)
         IN  <<first>> \o getRules(store \ {first})

\* the caller has taken the outcome of the call: no call is under way
CallEnds ==
    /\ mode' = "none"
    /\ parsedTransactions' = <<>>
    /\ rules' = <<>>
    /\ categories' = <<>>
    /\ batchSize' = DEFAULT_AI_BATCH_SIZE
    /\ finalTransactions' = <<>>
    /\ transactionsForAI' = <<>>
    /\ i' = 0
    /\ processedCount' = 0
    /\ progress' = <<>>
    /\ batch' = <<>>
    /\ aiResults' = EmptyMap
    /\ outcomes' = <<>>
    /\ requests' = 0
    /\ sentToAI' = {}
    /\ returned' = "pending"
    /\ pc' = "idle"

\* Upload.handleFileSelect up to the await of categorizeTransactions, the
\* clock `elapsed` later than at the invocation before
PickFile(elapsed) ==
    /\ pc = "idle"
    /\ now + elapsed <= MaxClock
    /\ now' = now + elapsed
    /\ \E parsed \in Files :
         LET uniqueParsed == UniqueParsed(parsed, stTransactions) IN
         IF uniqueParsed = <<>>
         THEN /\ uploadError' = "all exist"
              /\ UNCHANGED pipeVars
         ELSE /\ uploadError' = Null
              /\ StartPipeline("import", uniqueParsed, stRules, stCategories, 0)
    /\ preview' = <<>>
    /\ UNCHANGED <<extVars, dbTransactions, dbRules, stTransactions, stRules, adding,
                   recategorizing, resetting>>

\* the clock has advanced since the file before
handleFileSelect == PickFile(1)

\* the clock shows the millisecond of the invocation before
handleFileSelectSameMs == PickFile(0)

\* handleFileSelect after the await: setCategorizedTransactions(categorized)
UploadResumes ==
    /\ pc = "done"
    /\ mode = "import"
    /\ preview' = returned
    /\ CallEnds
    /\ UNCHANGED <<extVars, now, dbTransactions, dbRules, stTransactions, stRules, uploadError,
                   adding, recategorizing, resetting>>

\* handleFileSelect's catch: setError
UploadFails ==
    /\ pc = "failed"
    /\ mode = "import"
    /\ uploadError' = "failed"
    /\ CallEnds
    /\ UNCHANGED <<extVars, now, dbTransactions, dbRules, stTransactions, stRules, preview,
                   adding, recategorizing, resetting>>

\* Upload.handleAccept: addTransactions is called and not awaited, and
\* onUploadSuccess leaves the page, which drops the Upload state
handleAccept ==
    /\ preview # <<>>
    /\ adding = NoCall
    /\ adding' = [stage |-> "put", newTransactions |-> preview]
    /\ preview' = <<>>
    /\ uploadError' = Null
    /\ UNCHANGED <<extVars, pipeVars, now, dbTransactions, dbRules, stTransactions, stRules,
                   recategorizing, resetting>>

\* addTransactions: await db.addTransactions(newTransactions)
AddPut ==
    /\ adding.stage = "put"
    /\ dbTransactions' = Put(dbTransactions, adding.newTransactions)
    /\ adding' = [stage |-> "read"]
    /\ UNCHANGED <<extVars, pipeVars, now, dbRules, stTransactions, stRules, preview, uploadError,
                   recategorizing, resetting>>

\* addTransactions: await db.getTransactions(), setTransactions (the
\* continuation of a read runs in the task that delivers its result)
AddRefresh ==
    /\ adding.stage = "read"
    /\ stTransactions' = dbTransactions
    /\ adding' = NoCall
    /\ UNCHANGED <<extVars, pipeVars, now, dbTransactions, dbRules, stRules, preview, uploadError,
                   recategorizing, resetting>>

\* the Settings button, enabled while the state shows an uncategorized
\* transaction and no run is under way, and
\* recategorizeUncategorizedWithAI up to the await of the pipeline: the read
\* of the store, the filter, and the call with the rules and categories of
\* the React state
recategorizeUncategorizedWithAI ==
    /\ pc = "idle"
    /\ recategorizing = NoCall
    /\ \E t \in stTransactions : IsUncategorized(t)
    /\ LET uncategorized == SelectSeq(getTransactions(dbTransactions), IsUncategorized) IN
       IF uncategorized = <<>>
       THEN UNCHANGED <<pipeVars, recategorizing>>
       ELSE /\ recategorizing' = [stage |-> "pipeline"]
            /\ StartPipeline("recat", uncategorized, stRules, stCategories, 0)
    /\ UNCHANGED <<extVars, now, dbTransactions, dbRules, stTransactions, stRules, preview,
                   uploadError, adding, resetting>>

\* recategorizeUncategorizedWithAI: await db.batchUpdateTransactions(updated)
RecatWrite ==
    /\ pc = "done"
    /\ mode = "recat"
    /\ dbTransactions' = Put(dbTransactions, returned)
    /\ recategorizing' = [stage |-> "read"]
    /\ CallEnds
    /\ UNCHANGED <<extVars, now, dbRules, stTransactions, stRules, preview, uploadError, adding,
                   resetting>>

\* the pipeline rejected: handleRecategorizeUncategorized's catch
RecatFails ==
    /\ pc = "failed"
    /\ mode = "recat"
    /\ recategorizing' = NoCall
    /\ CallEnds
    /\ UNCHANGED <<extVars, now, dbTransactions, dbRules, stTransactions, stRules, preview,
                   uploadError, adding, resetting>>

\* recategorizeUncategorizedWithAI: await db.getTransactions(), setTransactions
RecatRefresh ==
    /\ recategorizing.stage = "read"
    /\ stTransactions' = dbTransactions
    /\ recategorizing' = NoCall
    /\ UNCHANGED <<extVars, pipeVars, now, dbTransactions, dbRules, stRules, preview, uploadError,
                   adding, resetting>>

\* resetAllData, confirmed: clearAllData's clearStore(TRANSACTIONS)
resetAllData ==
    /\ resetting = NoCall
    /\ dbTransactions' = {}
    /\ resetting' = [stage |-> "clear"]
    /\ UNCHANGED <<extVars, pipeVars, now, dbRules, stTransactions, stRules, preview, uploadError,
                   adding, recategorizing>>

\* clearAllData: the other stores are cleared and the defaults written back
clearAllData ==
    /\ resetting.stage = "clear"
    /\ dbRules' = {}
    /\ dbCategories' = DefaultCategories
    /\ dbBudgets' = DefaultBudgets(now)
    /\ resetting' = [stage |-> "read"]
    /\ UNCHANGED <<pipeVars, now, dbTransactions, stTransactions, stRules, stCategories,
                   preview, uploadError, adding, recategorizing, applying, deleting,
                   addingRule, sideVars>>

\* initialize: the reads of the stores, setTransactions, setRules
initialize ==
    /\ resetting.stage = "read"
    /\ stTransactions' = dbTransactions
    /\ stRules' = getRules(dbRules)
    /\ stCategories' = getCategories(dbCategories)
    /\ resetting' = NoCall
    /\ UNCHANGED <<pipeVars, now, dbTransactions, dbRules, dbCategories, dbBudgets, preview,
                   uploadError, adding, recategorizing, applying, deleting, addingRule, sideVars>>

\* ------------------------------------------------- edits of the stored ledger
\* db.applyRule, the loop: the stored transactions the rule matches whose
\* category differs, relabelled as categorized by the rule
applyRuleUpdatesKeepAI(store, rule) ==
    LET Hit(t) == /\ RuleMatches(rule, ToLowerCase(t.description))
                  /\ t.categoryId # rule.categoryId
        hits == SelectSeq(getTransactions(store), Hit)
    IN  [ k \in 1..Len(hits) |->
            [hits[k] EXCEPT !.categoryId = rule.categoryId, !.categorizedByRule = TRUE] ]

applyRuleUpdates(store, rule) ==
    LET Hit(t) == /\ RuleMatches(rule, ToLowerCase(t.description))
                  /\ t.categoryId # rule.categoryId
        hits == SelectSeq(getTransactions(store), Hit)
    IN  [ k \in 1..Len(hits) |->
            [hits[k] EXCEPT !.categoryId = rule.categoryId, !.categorizedByRule = TRUE,
                            !.categorizedByAI = FALSE] ]

\* the in-memory collections of DataProvider
Memory == <<stTransactions, stCategories, stRules>>

\* Rules.handleConfirmApply with a rule of the list on screen, and
\* applyRuleToTransactions up to applyRule's write: a count of 0 ends the call
applyRuleToTransactions ==
    /\ applying = NoCall
    /\ \E k \in 1..Len(stRules) :
         LET updatedTransactions == applyRuleUpdates(dbTransactions, stRules[k]) IN
         applying' = IF updatedTransactions = <<>> THEN NoCall
                     ELSE [stage |-> "write", updatedTransactions |-> updatedTransactions,
                           before |-> Memory]
    /\ UNCHANGED <<pipeVars, now, dbTransactions, dbRules, stTransactions, stRules, preview,
                   uploadError, adding, recategorizing, resetting, dbCategories, dbBudgets, addingRule,
                   stCategories, deleting, sideVars>>

\* applyRule: await db.batchUpdateTransactions(updatedTransactions)
ApplyWrite ==
    /\ applying.stage = "write"
    /\ dbTransactions' = Put(dbTransactions, applying.updatedTransactions)
    /\ applying' = [stage |-> "read", before |-> applying.before]
    /\ UNCHANGED <<pipeVars, now, dbRules, stTransactions, stRules, preview, uploadError,
                   adding, recategorizing, resetting, dbCategories, dbBudgets, addingRule, stCategories,
                   deleting, sideVars>>

\* applyRuleToTransactions: await db.getTransactions(), setTransactions
ApplyRefresh ==
    /\ applying.stage = "read"
    /\ stTransactions' = dbTransactions
    /\ applying' = NoCall
    /\ UNCHANGED <<pipeVars, now, dbTransactions, dbRules, stRules, preview, uploadError,
                   adding, recategorizing, resetting, dbCategories, dbBudgets, addingRule, stCategories,
                   deleting, sideVars>>

\* db.deleteCategory, the map: the stored transactions of the category, moved
\* to 'cat-uncategorized'
deleteCategoryUpdates(store, id) ==
    LET hits == SelectSeq(getTransactions(store), LAMBDA t : t.categoryId = id)
    IN  [ k \in 1..Len(hits) |-> [hits[k] EXCEPT !.categoryId = Uncategorized] ]

\* deleteFromStore(STORES.CATEGORIES, id)
DeleteFromCategories(store, id) == { c \in store : c.id # id }

\* CategoryManager.handleDelete, confirmed, for a category of the list on
\* screen (the list leaves 'cat-uncategorized' out), and deleteCategory up to
\* db.deleteCategory's first write
deleteCategory ==
    /\ deleting = NoCall
    /\ \E id \in CategoryIds(stCategories) \ {Uncategorized} :
         deleting' = [stage |-> "write", id |-> id,
                      updatedTransactions |-> deleteCategoryUpdates(dbTransactions, id),
                      before |-> Memory]
    /\ UNCHANGED <<pipeVars, now, dbTransactions, dbRules, stTransactions, stRules, preview,
                   uploadError, adding, recategorizing, resetting, dbCategories, dbBudgets, addingRule,
                   stCategories, applying, sideVars>>

\* db.deleteCategory: batchUpdateTransactions when the list is not empty
DeleteWrite ==
    /\ deleting.stage = "write"
    /\ dbTransactions' = Put(dbTransactions, deleting.updatedTransactions)
    /\ deleting' = [stage |-> "delete", id |-> deleting.id, before |-> deleting.before]
    /\ UNCHANGED <<pipeVars, now, dbRules, stTransactions, stRules, preview, uploadError,
                   adding, recategorizing, resetting, dbCategories, dbBudgets, addingRule, stCategories,
                   applying, sideVars>>

\* db.deleteCategory: deleteFromStore, and deleteCategory's setCategories
DeleteRecord ==
    /\ deleting.stage = "delete"
    /\ dbCategories' = DeleteFromCategories(dbCategories, deleting.id)
    /\ stCategories' = SelectSeq(stCategories, LAMBDA c : c.id # deleting.id)
    /\ deleting' = [stage |-> "read", before |-> deleting.before]
    /\ UNCHANGED <<pipeVars, now, dbTransactions, dbRules, stTransactions, stRules, preview,
                   uploadError, adding, recategorizing, resetting, dbBudgets, addingRule, applying, sideVars>>

\* deleteCategory: await db.getTransactions(), setTransactions
DeleteRefresh ==
    /\ deleting.stage = "read"
    /\ stTransactions' = dbTransactions
    /\ deleting' = NoCall
    /\ UNCHANGED <<pipeVars, now, dbTransactions, dbRules, stRules, preview, uploadError,
                   adding, recategorizing, resetting, dbCategories, dbBudgets, addingRule, stCategories,
                   applying, sideVars>>

\* the object Transactions.handleCategoryChange and Upload.handleCategoryChange
\* build: the new category, both provenance flags cleared
ManualEdit(t, newCategoryId) ==
    [t EXCEPT !.categoryId = newCategoryId, !.categorizedByRule = FALSE,
              !.categorizedByAI = FALSE]

\* prev.map(t => t.id === updatedTransaction.id ? updatedTransaction : t)
MapById(prev, updatedTransaction) ==
    { IF u.id = updatedTransaction.id THEN updatedTransaction ELSE u : u \in prev }

\* Transactions.handleCategoryChange for a transaction and a category on
\* screen (a select reports a changed value only), and updateTransaction:
\* the put, then setTransactions(prev.map(...))
updateTransaction(t, newCategoryId) ==
    LET updatedTransaction == ManualEdit(t, newCategoryId) IN
    /\ dbTransactions' = Put(dbTransactions, <<updatedTransaction>>)
    /\ stTransactions' = MapById(stTransactions, updatedTransaction)
    /\ UNCHANGED <<pipeVars, now, dbRules, stRules, preview, uploadError, adding,
                   recategorizing, resetting, extVars>>

TransactionsHandleCategoryChange ==
    \E t \in stTransactions, newCategoryId \in CategoryIds(stCategories) :
        /\ newCategoryId # t.categoryId
        /\ updateTransaction(t, newCategoryId)

\* prev.map(t => t.id === transactionId ? { ...t, ... } : t)
EditPreview(prev, transactionId, newCategoryId) ==
    [ k \in 1..Len(prev) |->
        IF prev[k].id = transactionId THEN ManualEdit(prev[k], newCategoryId)
        ELSE prev[k] ]

\* Upload.handleCategoryChange for a row and a category of the preview
UploadHandleCategoryChange ==
    \E j \in 1..Len(preview), newCategoryId \in CategoryIds(stCategories) :
        /\ newCategoryId # preview[j].categoryId
        /\ preview' = EditPreview(preview, preview[j].id, newCategoryId)
        /\ UNCHANGED <<pipeVars, now, dbTransactions, dbRules, stTransactions, stRules,
                       uploadError, adding, recategorizing, resetting, extVars>>

\* db.addRule: the order after the highest order of the store
MaxOrder(store) ==
    IF store = {} THEN 0
    ELSE CHOOSE n \in { r.order : r \in store } \cup {0} :
             \A r \in store : r.order <= n

\* the rule form saved with a new rule, and addRule up to db.addRule's
\* addToStore
addRule ==
    /\ addingRule = NoCall
    /\ \E r \in RuleForms :
         /\ r.id \notin { u.id : u \in dbRules }
         /\ dbRules' = dbRules \cup { WithOrder(r, MaxOrder(dbRules) + 1) }
    /\ addingRule' = [stage |-> "read"]
    /\ UNCHANGED <<pipeVars, now, dbTransactions, stTransactions, stRules, preview,
                   uploadError, adding, recategorizing, resetting, dbCategories, dbBudgets,
                   stCategories, applying, deleting, sideVars>>

\* addRule: await db.getRules(), setRules
AddRuleRefresh ==
    /\ addingRule.stage = "read"
    /\ stRules' = getRules(dbRules)
    /\ addingRule' = NoCall
    /\ UNCHANGED <<pipeVars, now, dbTransactions, dbRules, stTransactions, preview,
                   uploadError, adding, recategorizing, resetting, dbCategories, dbBudgets,
                   stCategories, applying, deleting, sideVars>>

\* ------------------------------------------------------- storage failures
\* a store call of applyRuleToTransactions or of deleteCategory fails: the
\* promise of the operation rejects with what the operation had done so far
Failed(call) == [stage |-> "failed", before |-> call.before]

\* applyRule: db.batchUpdateTransactions rejects
ApplyWriteFails ==
    /\ applying.stage = "write"
    /\ applying' = Failed(applying)
    /\ UNCHANGED <<pipeVars, now, dbTransactions, dbRules, stTransactions, stRules, preview,
                   uploadError, adding, recategorizing, resetting, dbCategories, dbBudgets,
                   stCategories, deleting, addingRule, sideVars>>

\* applyRuleToTransactions: db.getTransactions rejects
ApplyRefreshFails ==
    /\ applying.stage = "read"
    /\ applying' = Failed(applying)
    /\ UNCHANGED <<pipeVars, now, dbTransactions, dbRules, stTransactions, stRules, preview,
                   uploadError, adding, recategorizing, resetting, dbCategories, dbBudgets,
                   stCategories, deleting, addingRule, sideVars>>

\* the caller of applyRuleToTransactions has the exception
ApplyRejected ==
    /\ applying.stage = "failed"
    /\ applying' = NoCall
    /\ UNCHANGED <<pipeVars, now, dbTransactions, dbRules, stTransactions, stRules, preview,
                   uploadError, adding, recategorizing, resetting, dbCategories, dbBudgets,
                   stCategories, deleting, addingRule, sideVars>>

\* db.deleteCategory: db.batchUpdateTransactions rejects
DeleteWriteFails ==
    /\ deleting.stage = "write"
    /\ deleting.updatedTransactions # <<>>
    /\ deleting' = Failed(deleting)
    /\ UNCHANGED <<pipeVars, now, dbTransactions, dbRules, stTransactions, stRules, preview,
                   uploadError, adding, recategorizing, resetting, dbCategories, dbBudgets,
                   stCategories, applying, addingRule, sideVars>>

\* db.deleteCategory: deleteFromStore rejects
DeleteRecordFails ==
    /\ deleting.stage = "delete"
    /\ deleting' = Failed(deleting)
    /\ UNCHANGED <<pipeVars, now, dbTransactions, dbRules, stTransactions, stRules, preview,
                   uploadError, adding, recategorizing, resetting, dbCategories, dbBudgets,
                   stCategories, applying, addingRule, sideVars>>

\* deleteCategory: db.getTransactions rejects, after setCategories
DeleteRefreshFails ==
    /\ deleting.stage = "read"
    /\ deleting' = Failed(deleting)
    /\ UNCHANGED <<pipeVars, now, dbTransactions, dbRules, stTransactions, stRules, preview,
                   uploadError, adding, recategorizing, resetting, dbCategories, dbBudgets,
                   stCategories, applying, addingRule, sideVars>>

\* the caller of deleteCategory has the exception
DeleteRejected ==
    /\ deleting.stage = "failed"
    /\ deleting' = NoCall
    /\ UNCHANGED <<pipeVars, now, dbTransactions, dbRules, stTransactions, stRules, preview,
                   uploadError, adding, recategorizing, resetting, dbCategories, dbBudgets,
                   stCategories, applying, addingRule, sideVars>>

\* the application after its first initialize, on an empty ledger
AppReady ==
    /\ Idle
    /\ dbTransactions = {}
    /\ dbRules \in StoredRules
    /\ stTransactions = {}
    /\ stRules = getRules(dbRules)
    /\ preview = <<>>
    /\ uploadError = Null
    /\ adding = NoCall
    /\ recategorizing = NoCall
    /\ resetting = NoCall
    /\ dbCategories = DefaultCategories
    /\ dbBudgets = DefaultBudgets(0)
    /\ stCategories = getCategories(dbCategories)
    /\ applying = NoCall
    /\ deleting = NoCall
    /\ addingRule = NoCall
    /\ ruleCalls = {}
    /\ ParserIdle

InitApp ==
    /\ now = 0
    /\ AppReady

NextApp ==
    \/ handleFileSelect
    \/ SendBatch
    \/ RespondOk
    \/ RespondNotOk
    \/ NetworkFailure
    \/ Return
    \/ UploadResumes
    \/ UploadFails
    \/ handleAccept
    \/ AddPut
    \/ AddRefresh
    \/ recategorizeUncategorizedWithAI
    \/ RecatWrite
    \/ RecatFails
    \/ RecatRefresh
    \/ resetAllData
    \/ clearAllData
    \/ initialize

SpecApp == InitApp /\ [][NextApp]_vars

\* the application with the edits of the stored ledger and of the preview:
\* one file is picked, and the user starts an operation while fewer than
\* MaxCalls calls of DataProvider and of the Upload page are under way
MaxCalls == 1

Under(call) == IF call = NoCall THEN 0 ELSE 1

Calls ==
    Under(adding) + Under(recategorizing) + Under(applying) + Under(deleting)
      + Under(addingRule) + (IF pc # "idle" /\ mode = "import" THEN 1 ELSE 0)

InitEdits ==
    /\ now = MaxClock - 1
    /\ AppReady

NextEdits ==
    \/ Calls < MaxCalls /\ handleFileSelect
    \/ SendBatch
    \/ RespondOk
    \/ RespondNotOk
    \/ NetworkFailure
    \/ Return
    \/ UploadResumes
    \/ UploadFails
    \/ Calls < MaxCalls /\ UploadHandleCategoryChange
    \/ Calls < MaxCalls /\ handleAccept
    \/ AddPut
    \/ AddRefresh
    \/ Calls < MaxCalls /\ recategorizeUncategorizedWithAI
    \/ RecatWrite
    \/ RecatFails
    \/ RecatRefresh
    \/ Calls < MaxCalls /\ addRule
    \/ AddRuleRefresh
    \/ Calls < MaxCalls /\ applyRuleToTransactions
    \/ ApplyWrite
    \/ ApplyRefresh
    \/ Calls < MaxCalls /\ deleteCategory
    \/ DeleteWrite
    \/ DeleteRecord
    \/ DeleteRefresh
    \/ Calls < MaxCalls /\ TransactionsHandleCategoryChange

SpecEdits == InitEdits /\ [][NextEdits]_vars

\* an import, a recategorization, and manual edits of stored transactions
\* that the page accepts while a call is under way
NextWhileWaiting ==
    \/ Calls < MaxCalls /\ handleFileSelect
    \/ SendBatch
    \/ RespondOk
    \/ RespondNotOk
    \/ NetworkFailure
    \/ Return
    \/ UploadResumes
    \/ UploadFails
    \/ Calls < MaxCalls /\ handleAccept
    \/ AddPut
    \/ AddRefresh
    \/ Calls < MaxCalls /\ recategorizeUncategorizedWithAI
    \/ RecatWrite
    \/ RecatFails
    \/ RecatRefresh
    \/ TransactionsHandleCategoryChange

SpecWhileWaiting == InitEdits /\ [][NextWhileWaiting]_vars

\* the edits with store calls that fail
NextFail ==
    \/ Calls < MaxCalls /\ handleFileSelect
    \/ SendBatch
    \/ RespondOk
    \/ RespondNotOk
    \/ NetworkFailure
    \/ Return
    \/ UploadResumes
    \/ UploadFails
    \/ Calls < MaxCalls /\ handleAccept
    \/ AddPut
    \/ AddRefresh
    \/ Calls < MaxCalls /\ applyRuleToTransactions
    \/ ApplyWrite
    \/ ApplyWriteFails
    \/ ApplyRefresh
    \/ ApplyRefreshFails
    \/ ApplyRejected
    \/ Calls < MaxCalls /\ deleteCategory
    \/ DeleteWrite
    \/ DeleteWriteFails
    \/ DeleteRecord
    \/ DeleteRecordFails
    \/ DeleteRefresh
    \/ DeleteRefreshFails
    \/ DeleteRejected
    \/ Calls < MaxCalls /\ TransactionsHandleCategoryChange

SpecFail == InitEdits /\ [][NextFail]_vars

\* imports whose invocations may fall into one millisecond of the clock
NextIds ==
    \/ handleFileSelect
    \/ handleFileSelectSameMs
    \/ SendBatch
    \/ RespondOk
    \/ RespondNotOk
    \/ NetworkFailure
    \/ Return
    \/ UploadResumes
    \/ UploadFails
    \/ handleAccept
    \/ AddPut
    \/ AddRefresh

SpecIds == InitEdits /\ [][NextIds]_vars

\* statements in which one row occurs twice
FilesWithRepeats ==
    { << [date |-> D2, description |-> <<"b">>, amount |-> -50],
         [date |-> D2, description |-> <<"b">>, amount |-> -50] >>,
      << [date |-> D1, description |-> <<"S", "t">>, amount |-> 50],
         [date |-> D1, description |-> <<" ", "s", "T">>, amount |-> 50] >> }

\* Upload.handleFileSelect with such a statement
handleFileSelectRepeats ==
    /\ pc = "idle"
    /\ now + 1 <= MaxClock
    /\ now' = now + 1
    /\ \E parsed \in FilesWithRepeats :
         LET uniqueParsed == UniqueParsed(parsed, stTransactions) IN
         IF uniqueParsed = <<>>
         THEN /\ uploadError' = "all exist"
              /\ UNCHANGED pipeVars
         ELSE /\ uploadError' = Null
              /\ StartPipeline("import", uniqueParsed, stRules, stCategories, 0)
    /\ preview' = <<>>
    /\ UNCHANGED <<extVars, dbTransactions, dbRules, stTransactions, stRules, adding,
                   recategorizing, resetting>>

NextRepeats ==
    \/ handleFileSelectRepeats
    \/ SendBatch
    \/ RespondOk
    \/ RespondNotOk
    \/ NetworkFailure
    \/ Return
    \/ UploadResumes
    \/ UploadFails
    \/ handleAccept
    \/ AddPut
    \/ AddRefresh

SpecRepeats == InitApp /\ [][NextRepeats]_vars

\* ---------------------------------------------------------- statement parser
\* Strings the parser reads are sequences of characters.  A Date is the
\* number of hours since 1970-01-01T00:00Z, in a record that also says
\* whether it is a valid date; the offset of the local timezone is a whole
\* number of hours.
IsDigit(c) == c \in {"0", "1", "2", "3", "4", "5", "6", "7", "8", "9"}

DigitValue(c) ==
    CASE c = "0" -> 0 [] c = "1" -> 1 [] c = "2" -> 2 [] c = "3" -> 3 [] c = "4" -> 4
      [] c = "5" -> 5 [] c = "6" -> 6 [] c = "7" -> 7 [] c = "8" -> 8 [] c = "9" -> 9

AllDigits(s) == s # <<>> /\ \A k \in 1..Len(s) : IsDigit(s[k])

\* parseInt(s, 10) of a string of digits
RECURSIVE ParseInt(_)
ParseInt(s) ==
    IF s = <<>> THEN 0
    ELSE 10 * ParseInt(SubSeq(s, 1, Len(s) - 1)) + DigitValue(s[Len(s)])

\* String.prototype.split on a set of one-character separators
RECURSIVE Split(_, _)
Split(s, seps) ==
    LET at == { k \in 1..Len(s) : s[k] \in seps } IN
    IF at = {} THEN <<s>>
    ELSE LET k == CHOOSE x \in at : \A y \in at : x <= y
         IN  <<SubSeq(s, 1, k - 1)>> \o Split(SubSeq(s, k + 1, Len(s)), seps)

\* raw.match(/(\d+)/g): the maximal runs of digits
RECURSIVE DigitRuns(_)
DigitRuns(s) ==
    IF s = <<>> THEN <<>>
    ELSE IF ~IsDigit(Head(s)) THEN DigitRuns(Tail(s))
    ELSE LET stop == { k \in 1..Len(s) : ~IsDigit(s[k]) }
             n == IF stop = {} THEN Len(s)
                  ELSE (CHOOSE x \in stop : \A y \in stop : x <= y) - 1
         IN  <<SubSeq(s, 1, n)>> \o DigitRuns(SubSeq(s, n + 1, Len(s)))

\* /^\d{4}[-/]/.test(raw)
IsoLike(raw) ==
    /\ Len(raw) >= 5
    /\ \A k \in 1..4 : IsDigit(raw[k])
    /\ raw[5] \in {"-", "/"}

\* raw.match(/^(\d{1,2})[\/\-](\d{1,2})[\/\-](\d{2,4})$/): the three groups,
\* or <<>> for no match
NumericSlashOrDash(raw) ==
    LET parts == Split(raw, {"/", "-"}) IN
    IF /\ Len(parts) = 3
       /\ \A k \in 1..3 : AllDigits(parts[k])
       /\ Len(parts[1]) \in 1..2
       /\ Len(parts[2]) \in 1..2
       /\ Len(parts[3]) \in 2..4
    THEN parts ELSE <<>>

\* days from 1970-01-01 to the day (y, m, d) of the proleptic Gregorian
\* calendar, m in 1..12
DaysFromCivil(y, m, d) ==
    LET yy == IF m <= 2 THEN y - 1 ELSE y
        era == yy \div 400
        yoe == yy - era * 400
        mp == IF m > 2 THEN m - 3 ELSE m + 9
        doy == (153 * mp + 2) \div 5 + d - 1
        doe == yoe * 365 + yoe \div 4 - yoe \div 100 + doy
    IN  era * 146097 + doe - 719468

\* the calendar day of a day number
CivilFromDays(z) ==
    LET zz == z + 719468
        era == zz \div 146097
        doe == zz - era * 146097
        yoe == (doe - doe \div 1460 + doe \div 36524 - doe \div 146096) \div 365
        doy == doe - (365 * yoe + yoe \div 4 - yoe \div 100)
        mp == (5 * doy + 2) \div 153
        d == doy - (153 * mp + 2) \div 5 + 1
        m == IF mp < 10 THEN mp + 3 ELSE mp - 9
    IN  [year |-> IF m <= 2 THEN yoe + era * 400 + 1 ELSE yoe + era * 400,
         month |-> m, day |-> d]

DaysInMonth(y, m) == DaysFromCivil(IF m = 12 THEN y + 1 ELSE y, IF m = 12 THEN 1 ELSE m + 1, 1)
                       - DaysFromCivil(y, m, 1)

ValidDay(y, m, d) == m \in 1..12 /\ d >= 1 /\ d <= DaysInMonth(y, m)

ADate(hours) == [valid |-> TRUE, t |-> hours]

InvalidDate == [valid |-> FALSE, t |-> 0]     \* NaN, null

\* a Date object whose time value is NaN
InvalidTimeValue == [valid |-> FALSE, t |-> 0, object |-> TRUE]

\* new Date(year, monthIndex, date): midnight of the local day, months and
\* days out of range carried over, years 0..99 taken as 1900..1999; a day
\* more than 100,000,000 days from the epoch has no time value
NewDate(year, monthIndex, date, tz) ==
    LET full == IF year \in 0..99 THEN 1900 + year ELSE year
        ym == full + monthIndex \div 12
        mn == monthIndex % 12
    IN  IF ym \notin -271821..275760 THEN InvalidTimeValue
        ELSE LET days == DaysFromCivil(ym, mn + 1, 1) + date - 1 IN
             IF days \notin -100000000..100000000 THEN InvalidTimeValue
             ELSE ADate(days * 24 - tz)

\* the date-only form YYYY-MM-DD of the ECMAScript date-time string format
IsDateOnlyForm(raw) ==
    /\ Len(raw) = 10
    /\ \A k \in {1, 2, 3, 4, 6, 7, 9, 10} : IsDigit(raw[k])
    /\ raw[5] = "-"
    /\ raw[8] = "-"

\* what an engine that reads other strings makes of digits and separators:
\* Y/M/D for a first part of four digits, else M/D/Y, in local time
LegacyParse(raw, tz) ==
    LET parts == Split(raw, {"/", "-"}) IN
    IF ~(Len(parts) = 3 /\ \A k \in 1..3 : AllDigits(parts[k])) THEN InvalidDate
    ELSE LET p1 == ParseInt(parts[1])
             p2 == ParseInt(parts[2])
             p3 == ParseInt(parts[3])
             y3 == IF Len(parts[3]) <= 2 THEN (IF p3 < 50 THEN 2000 + p3 ELSE 1900 + p3)
                   ELSE p3
         IN  IF Len(parts[1]) = 4
             THEN IF ValidDay(p1, p2, p3) THEN NewDate(p1, p2 - 1, p3, tz) ELSE InvalidDate
             ELSE IF ValidDay(y3, p1, p2) THEN NewDate(y3, p1 - 1, p2, tz) ELSE InvalidDate

\* Date.parse(raw): the date-only form is midnight UTC; every other string
\* is left to the engine, which rejects it ("strict") or reads it ("legacy")
DateParse(raw, env) ==
    IF IsDateOnlyForm(raw)
    THEN LET y == ParseInt(SubSeq(raw, 1, 4))
             m == ParseInt(SubSeq(raw, 6, 7))
             d == ParseInt(SubSeq(raw, 9, 10))
         IN  IF ValidDay(y, m, d) THEN ADate(DaysFromCivil(y, m, d) * 24) ELSE InvalidDate
    ELSE IF env.engine = "legacy" THEN LegacyParse(raw, env.tz) ELSE InvalidDate

\* d.getFullYear()
GetFullYear(d, tz) == CivilFromDays((d.t + tz) \div 24).year

\* d.toISOString(), to the hour
ToISOString(d) ==
    LET day == CivilFromDays(d.t \div 24) IN
    [year |-> day.year, month |-> day.month, day |-> day.day, hour |-> d.t % 24]

\* parseDate with the two hints exchanged
parseDateSwapped(dateStr, dateFormatHint, env) ==
    LET raw == Trim(dateStr)
        iso == IF IsoLike(raw) THEN DateParse(raw, env) ELSE InvalidDate
        num == NumericSlashOrDash(raw)
        n1 == ParseInt(num[1])
        n2 == ParseInt(num[2])
        n3 == IF ParseInt(num[3]) < 100 THEN ParseInt(num[3]) + 2000 ELSE ParseInt(num[3])
    IN  IF dateStr = <<>> THEN InvalidDate
        ELSE IF iso.valid THEN iso
        ELSE IF num # <<>> /\ dateFormatHint = "MDY" THEN NewDate(n3, n2 - 1, n1, env.tz)
        ELSE IF num # <<>> /\ dateFormatHint = "DMY" THEN NewDate(n3, n1 - 1, n2, env.tz)
        ELSE InvalidDate

\* parseDate with the locale asked before the first group is looked at
parseDateLocaleFirst(dateStr, dateFormatHint, env) ==
    LET raw == Trim(dateStr)
        iso == IF IsoLike(raw) THEN DateParse(raw, env) ELSE InvalidDate
        num == NumericSlashOrDash(raw)
        n1 == ParseInt(num[1])
        n2 == ParseInt(num[2])
        n3 == IF ParseInt(num[3]) < 100 THEN ParseInt(num[3]) + 2000 ELSE ParseInt(num[3])
        timestamp == DateParse(raw, env)
        parts == DigitRuns(raw)
        p1 == ParseInt(parts[1])
        p2 == ParseInt(parts[2])
        p3 == ParseInt(parts[3])
    IN  IF dateStr = <<>> THEN InvalidDate
        ELSE IF iso.valid THEN iso
        ELSE IF num # <<>> /\ dateFormatHint = "DMY" THEN NewDate(n3, n2 - 1, n1, env.tz)
        ELSE IF num # <<>> /\ dateFormatHint = "MDY" THEN NewDate(n3, n1 - 1, n2, env.tz)
        ELSE IF /\ timestamp.valid
                /\ GetFullYear(timestamp, env.tz) > 1900
                /\ GetFullYear(timestamp, env.tz) < 2100
             THEN timestamp
        ELSE IF Len(parts) = 3 /\ p3 > 1000
             THEN IF env.dayFirst THEN NewDate(p3, p2 - 1, p1, env.tz)
                  ELSE NewDate(p3, p1 - 1, p2, env.tz)
        ELSE IF Len(parts) = 3 /\ p1 > 1000 THEN NewDate(p1, p2 - 1, p3, env.tz)
        ELSE InvalidDate

\* parseDate(dateStr, dateFormatHint): a Date, or InvalidDate for null
parseDate(dateStr, dateFormatHint, env) ==
    LET raw == Trim(dateStr)
        iso == IF IsoLike(raw) THEN DateParse(raw, env) ELSE InvalidDate
        num == NumericSlashOrDash(raw)
        n1 == ParseInt(num[1])
        n2 == ParseInt(num[2])
        n3 == IF ParseInt(num[3]) < 100 THEN ParseInt(num[3]) + 2000 ELSE ParseInt(num[3])
        timestamp == DateParse(raw, env)
        parts == DigitRuns(raw)
        p1 == ParseInt(parts[1])
        p2 == ParseInt(parts[2])
        p3 == ParseInt(parts[3])
    IN  IF dateStr = <<>> THEN InvalidDate
        ELSE IF iso.valid THEN iso
        ELSE IF num # <<>> /\ dateFormatHint = "DMY" THEN NewDate(n3, n2 - 1, n1, env.tz)
        ELSE IF num # <<>> /\ dateFormatHint = "MDY" THEN NewDate(n3, n1 - 1, n2, env.tz)
        ELSE IF /\ timestamp.valid
                /\ GetFullYear(timestamp, env.tz) > 1900
                /\ GetFullYear(timestamp, env.tz) < 2100
             THEN timestamp
        ELSE IF Len(parts) = 3 /\ p3 > 1000
             THEN IF p1 > 12 THEN NewDate(p3, p2 - 1, p1, env.tz)
                  ELSE IF env.dayFirst THEN NewDate(p3, p2 - 1, p1, env.tz)
                  ELSE NewDate(p3, p1 - 1, p2, env.tz)
        ELSE IF Len(parts) = 3 /\ p1 > 1000 THEN NewDate(p1, p2 - 1, p3, env.tz)
        ELSE InvalidDate

\* the keywords of the column search
KW_DATE == <<"d", "a", "t", "e">>
KW_DESCRIPTION == <<"d", "e", "s", "c", "r", "i", "p", "t", "i", "o", "n">>
KW_NARRATIVE == <<"n", "a", "r", "r", "a", "t", "i", "v", "e">>
KW_MEMO == <<"m", "e", "m", "o">>
KW_DETAILS == <<"d", "e", "t", "a", "i", "l", "s">>
KW_PAYEE == <<"p", "a", "y", "e", "e">>
KW_AMOUNT == <<"a", "m", "o", "u", "n", "t">>
KW_CREDIT == <<"c", "r", "e", "d", "i", "t">>
KW_DEBIT == <<"d", "e", "b", "i", "t">>

\* findColumnIndex(header, keywords): the first cell that includes the first
\* keyword some cell includes; 0 stands for -1
RECURSIVE findColumnIndex(_, _)
findColumnIndex(header, keywords) ==
    IF keywords = <<>> THEN 0
    ELSE LET hits == { k \in 1..Len(header) : Includes(header[k], Head(keywords)) } IN
         IF hits # {} THEN CHOOSE k \in hits : \A j \in hits : k <= j
         ELSE findColumnIndex(header, Tail(keywords))

\* replace(/"/g, '')
RemoveQuotes(s) == SelectSeq(s, LAMBDA c : c # "\"")

\* replace(/[$,\s]/g, '')
RemoveMoneyMarks(s) == SelectSeq(s, LAMBDA c : c \notin {"$", ",", " ", "\t"})

\* parseFloat(s) || 0 for the amounts the files hold: digits, with or
\* without a sign
ParseFloatOrZero(s) ==
    IF s # <<>> /\ Head(s) = "-" /\ AllDigits(Tail(s)) THEN 0 - ParseInt(Tail(s))
    ELSE IF AllDigits(s) THEN ParseInt(s)
    ELSE 0

\* values[k] ? values[k].replace(/[$,\s]/g, '') : '0', then parseFloat || 0
CellAmount(cell) == IF cell = <<>> THEN 0 ELSE ParseFloatOrZero(RemoveMoneyMarks(cell))

Abs(n) == IF n < 0 THEN 0 - n ELSE n

\* a line split at its commas (the files hold no quoted commas), each cell
\* trimmed and stripped of quotes
Cells(line) ==
    LET raw == Split(line, {","}) IN
    [ k \in 1..Len(raw) |-> RemoveQuotes(Trim(raw[k])) ]

Resolved(list) == [stage |-> "done", ok |-> TRUE, value |-> list, error |-> Null]

Rejected(message) == [stage |-> "done", ok |-> FALSE, value |-> <<>>, error |-> message]

NotParsed == [stage |-> "none", ok |-> FALSE, value |-> <<>>, error |-> Null]

\* toISOString called on a Date without a time value
Thrown == [thrown |-> TRUE]

\* the body of body.forEach for one line: the transaction pushed, if any
CsvRow(line, width, cols, dateFormatHint, env) ==
    LET values == Cells(line)
        amount == IF cols.amount # 0 THEN CellAmount(values[cols.amount])
                  ELSE CellAmount(values[cols.credit]) - Abs(CellAmount(values[cols.debit]))
        date == parseDate(values[cols.date], dateFormatHint, env)
    IN  IF Len(values) < width THEN <<>>
        ELSE IF date = InvalidDate THEN <<>>
        ELSE IF values[cols.description] = <<>> THEN <<>>
        ELSE IF ~date.valid THEN <<Thrown>>
        ELSE << [date |-> ToISOString(date), description |-> values[cols.description],
                 amount |-> amount] >>

RECURSIVE CsvRows(_, _, _, _, _)
CsvRows(body, width, cols, dateFormatHint, env) ==
    IF body = <<>> THEN <<>>
    ELSE CsvRow(Head(body), width, cols, dateFormatHint, env)
           \o CsvRows(Tail(body), width, cols, dateFormatHint, env)

\* parseCSV(content, dateFormatHint); content is given as the lines
\* content.split(/\r?\n/) yields
parseCSV(content, dateFormatHint, env) ==
    LET lines == SelectSeq(content, LAMBDA line : Trim(line) # <<>>)
        first == Split(lines[1], {","})
        header == [ k \in 1..Len(first) |-> RemoveQuotes(ToLowerCase(Trim(first[k]))) ]
        cols == [date |-> findColumnIndex(header, <<KW_DATE>>),
                 description |-> findColumnIndex(header, <<KW_DESCRIPTION, KW_NARRATIVE,
                                                           KW_MEMO, KW_DETAILS, KW_PAYEE>>),
                 amount |-> findColumnIndex(header, <<KW_AMOUNT>>),
                 credit |-> findColumnIndex(header, <<KW_CREDIT>>),
                 debit |-> findColumnIndex(header, <<KW_DEBIT>>)]
        transactions == CsvRows(Tail(lines), Len(header), cols, dateFormatHint, env)
    IN  IF Len(lines) < 2 THEN Resolved(<<>>)
        ELSE IF cols.date = 0 THEN Rejected("no date column")
        ELSE IF cols.description = 0 THEN Rejected("no description column")
        ELSE IF cols.amount = 0 /\ ~(cols.credit # 0 /\ cols.debit # 0)
             THEN Rejected("no amount columns")
        ELSE IF \E k \in 1..Len(transactions) : transactions[k] = Thrown
             THEN Rejected("Invalid time value")
        ELSE IF Len(transactions) = 0 THEN Rejected("no valid transactions")
        ELSE Resolved(transactions)

\* String.prototype.substring(from, to), from counted from 0
Substring(s, from, to) ==
    SubSeq(s, from + 1, IF to > Len(s) THEN Len(s) ELSE to)

\* one STMTTRN element of parseOFX: the row pushed, <<>> when a tag is
\* missing, and Thrown when toISOString is called on an Invalid Date (the
\* amounts of the files are numbers, so parseFloat returns them)
OfxRow(el, env) ==
    LET dateStr == el.DTPOSTED
        date == Substring(dateStr, 0, 4) \o <<"-">> \o Substring(dateStr, 4, 6)
                  \o <<"-">> \o Substring(dateStr, 6, 8)
        parsed == DateParse(date, env)
    IN  IF ~({"DTPOSTED", "TRNAMT", "MEMO"} \subseteq el.tags) THEN <<>>
        ELSE IF ~parsed.valid THEN <<Thrown>>
        ELSE << [date |-> ToISOString(parsed), description |-> el.MEMO,
                 amount |-> ParseFloatOrZero(el.TRNAMT)] >>

RECURSIVE OfxRows(_, _)
OfxRows(elements, env) ==
    IF elements = <<>> THEN <<>>
    ELSE OfxRow(Head(elements), env) \o OfxRows(Tail(elements), env)

\* parseOFX(content); content is given as the STMTTRN elements of the document
parseOFX(content, env) ==
    LET results == OfxRows(content, env) IN
    IF \E k \in 1..Len(results) : results[k] = Thrown THEN Rejected("Invalid time value")
    ELSE Resolved(results)

\* parseFile(file, dateFormatHint): how the promise settles
parseFile(file, dateFormatHint, env) ==
    IF file.extension = "csv" THEN parseCSV(file.content, dateFormatHint, env)
    ELSE IF file.extension = "ofx" THEN parseOFX(file.content, env)
    ELSE Rejected("unsupported file type")

\* ------------------------------------------------------ calls of the parser
\* the runtime: the offset of the local timezone in hours, what Date.parse
\* does with strings outside the standard format, and whether the locale
\* writes the day first
Offsets == {-5, 0, 11}

Environments ==
    [tz : Offsets, engine : {"strict", "legacy"}, dayFirst : BOOLEAN]

Hints == {"auto", "DMY", "MDY"}

\* date cells, with the numbers of the three groups for the strings of
\* the form D/D/D
DateStrings ==
    { [text |-> <<"1", "/", "2", "/", "2", "0", "2", "4">>, kind |-> "numeric", g1 |-> 1, g2 |-> 2, g3 |-> 2024],
      [text |-> <<"3", "1", "-", "1", "2", "-", "2", "4">>, kind |-> "numeric", g1 |-> 31, g2 |-> 12, g3 |-> 24],
      [text |-> <<"1", "2", "/", "3", "1", "/", "2", "0", "2", "4">>, kind |-> "numeric", g1 |-> 12, g2 |-> 31, g3 |-> 2024],
      [text |-> <<" ", "0", "5", "/", "0", "6", "/", "1", "2", "3", " ">>, kind |-> "numeric", g1 |-> 5, g2 |-> 6, g3 |-> 123],
      [text |-> <<"3", "1", "/", "1", "2", "/", "2", "0", "2", "4">>, kind |-> "numeric", g1 |-> 31, g2 |-> 12, g3 |-> 2024],
      [text |-> <<"1", "3", "-", "0", "5", "-", "2", "0", "2", "4">>, kind |-> "numeric", g1 |-> 13, g2 |-> 5, g3 |-> 2024],
      [text |-> <<"3", "1", "/", "1", "2", "/", "1", "0", "0", "0">>, kind |-> "numeric", g1 |-> 31, g2 |-> 12, g3 |-> 1000],
      [text |-> <<"2", "0", "2", "4", "-", "0", "2", "-", "0", "1">>, kind |-> "iso", g1 |-> 0, g2 |-> 0, g3 |-> 0],
      [text |-> <<"2", "0", "2", "4", "/", "0", "2", "/", "0", "1">>, kind |-> "iso", g1 |-> 0, g2 |-> 0, g3 |-> 0],
      [text |-> <<"2", "0", "2", "4", "-", "2", "-", "1">>, kind |-> "iso", g1 |-> 0, g2 |-> 0, g3 |-> 0],
      [text |-> <<"2", "0", "2", "4", "-", "1", "3", "-", "0", "1">>, kind |-> "iso", g1 |-> 0, g2 |-> 0, g3 |-> 0],
      [text |-> <<"F", "e", "b", " ", "1">>, kind |-> "other", g1 |-> 0, g2 |-> 0, g3 |-> 0],
      [text |-> <<>>, kind |-> "other", g1 |-> 0, g2 |-> 0, g3 |-> 0] }

\* statement files, with what is wrong with them and, where the rows write
\* the day unambiguously, the days of the rows
StatementFiles ==
    { [extension |-> "csv", label |-> "short", content |-> <<>>, days |-> <<>>],
      [extension |-> "csv", label |-> "short", content |-> <<<<"D", "a", "t", "e", ",", "D", "e", "s", "c", "r", "i", "p", "t", "i", "o", "n", ",", "A", "m", "o", "u", "n", "t">>, <<" ">>>>, days |-> <<>>],
      [extension |-> "csv", label |-> "no date", content |-> <<<<"W", "h", "e", "n", ",", "D", "e", "s", "c", "r", "i", "p", "t", "i", "o", "n", ",", "A", "m", "o", "u", "n", "t">>, <<"2", "0", "2", "4", "-", "0", "2", "-", "0", "1", ",", "S", "t", ",", "5", "0">>>>, days |-> <<>>],
      [extension |-> "csv", label |-> "no description", content |-> <<<<"D", "a", "t", "e", ",", "T", "e", "x", "t", ",", "A", "m", "o", "u", "n", "t">>, <<"2", "0", "2", "4", "-", "0", "2", "-", "0", "1", ",", "S", "t", ",", "5", "0">>>>, days |-> <<>>],
      [extension |-> "csv", label |-> "no amount", content |-> <<<<"D", "a", "t", "e", ",", "M", "e", "m", "o", ",", "C", "r", "e", "d", "i", "t">>, <<"2", "0", "2", "4", "-", "0", "2", "-", "0", "1", ",", "S", "t", ",", "5", "0">>>>, days |-> <<>>],
      [extension |-> "csv", label |-> "no rows", content |-> <<<<"D", "a", "t", "e", ",", "D", "e", "s", "c", "r", "i", "p", "t", "i", "o", "n", ",", "A", "m", "o", "u", "n", "t">>, <<"F", "e", "b", " ", "1", ",", "S", "t", ",", "5", "0">>, <<"2", "0", "2", "4", "-", "0", "2", "-", "0", "1", ",", ",", "5", "0">>, <<"2", "0", "2", "4", "-", "0", "2", "-", "0", "1">>>>, days |-> <<>>],
      [extension |-> "csv", label |-> "good", content |-> <<<<"D", "a", "t", "e", ",", "D", "e", "s", "c", "r", "i", "p", "t", "i", "o", "n", ",", "A", "m", "o", "u", "n", "t">>, <<"2", "0", "2", "4", "-", "0", "2", "-", "0", "1", ",", "S", "t", ",", "5", "0">>, <<>>, <<"2", "0", "2", "4", "-", "0", "2", "-", "0", "2", ",", " ", "b", " ", ",", "-", "5", "0">>>>, days |-> <<[year |-> 2024, month |-> 2, day |-> 1], [year |-> 2024, month |-> 2, day |-> 2]>>],
      [extension |-> "csv", label |-> "good", content |-> <<<<"d", "a", "t", "e", ",", "m", "e", "m", "o", ",", "d", "e", "b", "i", "t", ",", "c", "r", "e", "d", "i", "t">>, <<"1", "/", "2", "/", "2", "0", "2", "4", ",", "S", "t", ",", "0", ",", "$", "5", "0">>>>, days |-> <<>>],
      [extension |-> "csv", label |-> "good", content |-> <<<<"D", "a", "t", "e", ",", "D", "e", "s", "c", "r", "i", "p", "t", "i", "o", "n", ",", "A", "m", "o", "u", "n", "t">>, <<"2", "0", "2", "4", "-", "0", "2", "-", "0", "1", ",", "S", "t", ",", "5", "0">>, <<"2", "0", "2", "4", "0", "1", "0", "2", " ", "1", "2", ":", "3", "0", ",", "b", ",", "-", "5", "0">>>>, days |-> <<>>],
      [extension |-> "csv", label |-> "good", content |-> <<<<"D", "a", "t", "e", ",", "D", "e", "s", "c", "r", "i", "p", "t", "i", "o", "n", ",", "A", "m", "o", "u", "n", "t">>, <<"2", "0", "2", "4", "-", "0", "2", "-", "0", "1", ",", "S", "t", ",", "5", "0">>, <<"F", "e", "b", " ", "1", ",", "b", ",", "-", "5", "0">>, <<"2", "0", "2", "4", "-", "0", "2", "-", "0", "2">>, <<"2", "0", "2", "4", "-", "0", "2", "-", "0", "2", ",", ",", "7">>, <<"2", "0", "2", "4", "-", "0", "2", "-", "0", "2", ",", "b", ",">>>>, days |-> <<>>],
      [extension |-> "ofx", label |-> "no rows", content |-> <<>>, days |-> <<>>],
      [extension |-> "ofx", label |-> "no rows", content |-> <<[tags |-> {"DTPOSTED", "TRNAMT"}, DTPOSTED |-> <<"2", "0", "2", "4", "0", "2", "0", "1", "1", "2", "0", "0", "0", "0">>, TRNAMT |-> <<"5", "0">>, MEMO |-> <<>>]>>, days |-> <<>>],
      [extension |-> "ofx", label |-> "good", content |-> <<[tags |-> {"DTPOSTED", "TRNAMT", "MEMO"}, DTPOSTED |-> <<"2", "0", "2", "4", "0", "2", "0", "1", "1", "2", "0", "0", "0", "0">>, TRNAMT |-> <<"5", "0">>, MEMO |-> <<"S", "t">>]>>, days |-> <<[year |-> 2024, month |-> 2, day |-> 1]>>],
      [extension |-> "txt", label |-> "unsupported", content |-> <<>>, days |-> <<>>] }

ParserInputs ==
    { [call |-> "parseDate", dateStr |-> s, hint |-> h, env |-> e] :
        s \in DateStrings, h \in Hints, e \in Environments }
      \cup { [call |-> "parseFile", file |-> f, hint |-> h, env |-> e] :
                f \in StatementFiles, h \in Hints, e \in Environments }

ledgerVars == <<dbTransactions, dbRules, stTransactions, stRules, preview, uploadError,
                adding, recategorizing, resetting, dbCategories, dbBudgets, stCategories,
                applying, deleting, addingRule>>

\* a call of parseDate for a date cell
CallParseDate ==
    /\ parseInput.call = "parseDate"
    /\ parseOutput.stage = "none"
    /\ parseOutput' = Resolved(<<parseDate(parseInput.dateStr.text, parseInput.hint,
                                           parseInput.env)>>)
    /\ UNCHANGED <<pipeVars, now, ledgerVars, parseInput, ruleCalls>>

\* a call of parseFile, up to the settling of its promise
CallParseFile ==
    /\ parseInput.call = "parseFile"
    /\ parseOutput.stage = "none"
    /\ parseOutput' = parseFile(parseInput.file, parseInput.hint, parseInput.env)
    /\ UNCHANGED <<pipeVars, now, ledgerVars, parseInput, ruleCalls>>

InitParser ==
    /\ Idle
    /\ now = 0
    /\ AppIdle
    /\ parseInput \in ParserInputs
    /\ parseOutput = NotParsed

NextParser ==
    \/ CallParseDate
    \/ CallParseFile

SpecParser == InitParser /\ [][NextParser]_vars

\* ------------------------------------------------------ the database service
\* the calls of `db` on the four object stores, each awaited before the next
storeVars == <<dbTransactions, dbCategories, dbRules, dbBudgets>>

offStoreVars == <<pipeVars, stTransactions, stRules, preview, uploadError, adding,
                  recategorizing, resetting, stCategories, applying, deleting, addingRule,
                  sideVars>>

\* the keys of the budgets store in key order
BudgetKeyOrder == <<"bud-1", "budget-dining", "budget-groceries">>

\* getBudgets: getAll returns the records in key order
getBudgets(store) ==
    LET present == SelectSeq(BudgetKeyOrder, LAMBDA id : \E b \in store : b.id = id)
    IN  [ k \in 1..Len(present) |-> CHOOSE b \in store : b.id = present[k] ]

\* records the callers hand to the service
CatNew == [id |-> "cat-1", name |-> "Pets"]

CategoryForms == { CatNew, [id |-> Uncategorized, name |-> "Other"] }

StoredTxn ==
    [id |-> TxnId(1, 1), date |-> D1, description |-> <<"S", "t">>, amount |-> 50,
     categoryId |-> "cat-groceries", categorizedByRule |-> TRUE, categorizedByAI |-> FALSE]

\* what exportData returns, without exportedAt and version, which importData
\* does not read
exportData(txnStore, catStore, rulesStore, budgetStore) ==
    [categories |-> getCategories(catStore), rules |-> getRules(rulesStore),
     transactions |-> getTransactions(txnStore), budgets |-> getBudgets(budgetStore)]

\* payloads of importData: an object without lists, and a backup written by
\* hand whose records leave the optional fields out
Payloads ==
    { [categories |-> <<>>, rules |-> <<>>, transactions |-> <<>>, budgets |-> <<>>],
      [categories |-> <<CatG, CatD>>,
       rules |-> << [id |-> "r2", conditionType |-> "startsWith",
                     conditionValue |-> <<"t">>, categoryId |-> "cat-dining"] >>,
       transactions |-> <<StoredTxn>>,
       budgets |-> << [id |-> "bud-1", categoryId |-> "cat-dining"] >>] }

\* { ...r, order: r.order ?? index + 1 }
ImportedRule(r, index) ==
    WithOrder(r, IF "order" \in DOMAIN r THEN r.order ELSE index)

\* { ...b, updatedAt: b.updatedAt || new Date().toISOString(),
\*   customPercent: b.customPercent ?? null }
ImportedBudget(b, clock) ==
    [id |-> b.id, categoryId |-> b.categoryId,
     customPercent |-> IF "customPercent" \in DOMAIN b THEN b.customPercent ELSE Null,
     updatedAt |-> IF "updatedAt" \in DOMAIN b THEN b.updatedAt ELSE clock]

\* importData(data): the four stores once the call has resolved (the keys of
\* each list of Payloads and of an export differ, so every add succeeds)
importData(data, clock) ==
    [transactions |-> { data.transactions[k] : k \in 1..Len(data.transactions) },
     categories |-> IF Len(data.categories) > 0
                    THEN { data.categories[k] : k \in 1..Len(data.categories) }
                    ELSE DefaultCategories,
     rules |-> { ImportedRule(data.rules[k], k) : k \in 1..Len(data.rules) },
     budgets |-> IF Len(data.budgets) > 0
                 THEN { ImportedBudget(data.budgets[k], clock) : k \in 1..Len(data.budgets) }
                 ELSE DefaultBudgets(clock)]

\* time passes between two calls
Tick ==
    /\ now < MaxClock
    /\ now' = now + 1
    /\ UNCHANGED <<storeVars, offStoreVars>>

\* db.addCategory(c): store.add rejects a key that exists
db_addCategory ==
    /\ \E c \in CategoryForms :
         dbCategories' = IF \E d \in dbCategories : d.id = c.id THEN dbCategories
                         ELSE dbCategories \cup {c}
    /\ UNCHANGED <<now, dbTransactions, dbRules, dbBudgets, offStoreVars>>

\* db.updateCategory(c): store.put
db_updateCategory ==
    /\ \E c \in CategoryForms :
         dbCategories' = DeleteFromCategories(dbCategories, c.id) \cup {c}
    /\ UNCHANGED <<now, dbTransactions, dbRules, dbBudgets, offStoreVars>>

\* db.deleteCategory(id)
db_deleteCategory ==
    /\ \E k \in 1..Len(CategoryKeyOrder) :
         LET id == CategoryKeyOrder[k] IN
         /\ dbTransactions' = Put(dbTransactions, deleteCategoryUpdates(dbTransactions, id))
         /\ dbCategories' = DeleteFromCategories(dbCategories, id)
    /\ UNCHANGED <<now, dbRules, dbBudgets, offStoreVars>>

\* db.addTransactions(transactions)
db_addTransactions ==
    /\ dbTransactions' = Put(dbTransactions, <<StoredTxn>>)
    /\ UNCHANGED <<now, dbCategories, dbRules, dbBudgets, offStoreVars>>

\* db.addRule(r)
db_addRule ==
    /\ \E r \in RuleForms :
         /\ r.id \notin { u.id : u \in dbRules }
         /\ dbRules' = dbRules \cup { WithOrder(r, MaxOrder(dbRules) + 1) }
    /\ UNCHANGED <<now, dbTransactions, dbCategories, dbBudgets, offStoreVars>>

\* db.deleteRule(id)
db_deleteRule ==
    /\ \E r \in dbRules : dbRules' = dbRules \ {r}
    /\ UNCHANGED <<now, dbTransactions, dbCategories, dbBudgets, offStoreVars>>

\* db.deleteBudget(id)
db_deleteBudget ==
    /\ \E b \in dbBudgets : dbBudgets' = dbBudgets \ {b}
    /\ UNCHANGED <<now, dbTransactions, dbCategories, dbRules, offStoreVars>>

\* db.clearAllData()
db_clearAllData ==
    /\ dbTransactions' = {}
    /\ dbRules' = {}
    /\ dbCategories' = DefaultCategories
    /\ dbBudgets' = DefaultBudgets(now)
    /\ UNCHANGED <<now, offStoreVars>>

\* the stores become those importData leaves
Imports(data) ==
    LET after == importData(data, now) IN
    /\ dbTransactions' = after.transactions
    /\ dbCategories' = after.categories
    /\ dbRules' = after.rules
    /\ dbBudgets' = after.budgets
    /\ UNCHANGED <<now, offStoreVars>>

\* db.importData(payload) with the payload of a file
db_importData == \E data \in Payloads : Imports(data)

\* db.importData(await db.exportData())
RoundTrip == Imports(exportData(dbTransactions, dbCategories, dbRules, dbBudgets))

\* the stores after db.init on a new database
InitStore ==
    /\ now = 0
    /\ AppReady
    /\ dbRules = {}

NextStore ==
    \/ Tick
    \/ db_addCategory
    \/ db_updateCategory
    \/ db_deleteCategory
    \/ db_addTransactions
    \/ db_addRule
    \/ db_deleteRule
    \/ db_deleteBudget
    \/ db_clearAllData
    \/ db_importData
    \/ RoundTrip

SpecStore == InitStore /\ [][NextStore]_vars

\* ----------------------------------------------- an import that is refused
\* the adds of one readwrite transaction, in the order of the list: add throws
\* on a record without the key path and the loop stops, the adds issued before
\* it commit; an add of a key the transaction has added already fails and the
\* transaction aborts, which undoes all its adds
AddAll(list) ==
    LET keyless == { k \in 1..Len(list) : "id" \notin DOMAIN list[k] }
        upto == IF keyless = {} THEN Len(list)
                ELSE (CHOOSE k \in keyless : \A j \in keyless : k <= j) - 1
        clash == \E a, b \in 1..upto : a < b /\ list[a].id = list[b].id
    IN  [ok |-> keyless = {} /\ ~clash,
         store |-> IF clash THEN {} ELSE { list[k] : k \in 1..upto }]

\* importData(data): the four stores when the call settles, after the four
\* clearStore calls, and whether it rejected; a collection is written only
\* when the ones before it were
importDataOutcome(data, clock) ==
    LET cats == IF Len(data.categories) > 0 THEN AddAll(data.categories)
                ELSE [ok |-> TRUE, store |-> DefaultCategories]
        rls == AddAll([k \in 1..Len(data.rules) |-> ImportedRule(data.rules[k], k)])
        txns == AddAll(data.transactions)
        buds == IF Len(data.budgets) > 0
                THEN AddAll([k \in 1..Len(data.budgets) |->
                                ImportedBudget(data.budgets[k], clock)])
                ELSE [ok |-> TRUE, store |-> DefaultBudgets(clock)]
    IN  [categories |-> cats.store,
         rules |-> IF cats.ok THEN rls.store ELSE {},
         transactions |-> IF cats.ok /\ rls.ok THEN txns.store ELSE {},
         budgets |-> IF cats.ok /\ rls.ok /\ txns.ok THEN buds.store ELSE {},
         rejected |-> ~(cats.ok /\ rls.ok /\ txns.ok /\ buds.ok)]

\* a backup whose records can all be added
GoodBackup ==
    [categories |-> <<CatG, CatD>>,
     rules |-> << [id |-> "r2", conditionType |-> "startsWith",
                   conditionValue |-> <<"t">>, categoryId |-> "cat-dining"] >>,
     transactions |-> <<StoredTxn>>,
     budgets |-> << [id |-> "bud-1", categoryId |-> "cat-dining"] >>]

\* backups edited by hand: one collection names a key twice, or holds a
\* transaction without an id
FaultyPayloads ==
    { [GoodBackup EXCEPT !.categories = <<CatG, CatD, CatG>>],
      [GoodBackup EXCEPT !.rules = <<@[1], @[1]>>],
      [GoodBackup EXCEPT !.transactions = <<StoredTxn, StoredTxn>>],
      [GoodBackup EXCEPT !.transactions =
          <<StoredTxn, [date |-> D1, description |-> <<"b">>, amount |-> -50]>>],
      [GoodBackup EXCEPT !.budgets = <<@[1], @[1]>>] }

\* db.importData(payload) rejects
db_importDataFails ==
    \E data \in FaultyPayloads :
        LET after == importDataOutcome(data, now) IN
        /\ after.rejected
        /\ dbTransactions' = after.transactions
        /\ dbCategories' = after.categories
        /\ dbRules' = after.rules
        /\ dbBudgets' = after.budgets
        /\ UNCHANGED <<now, offStoreVars>>

NextStoreFail ==
    \/ Tick
    \/ db_addCategory
    \/ db_updateCategory
    \/ db_deleteCategory
    \/ db_addTransactions
    \/ db_addRule
    \/ db_deleteRule
    \/ db_deleteBudget
    \/ db_clearAllData
    \/ db_importData
    \/ RoundTrip
    \/ db_importDataFails

SpecStoreFail == InitStore /\ [][NextStoreFail]_vars

\* ------------------------------------------------- calls on the rules store
\* The calls of the database service on the rules store, each in the steps
\* its awaits divide it into: a call that has read the store waits in
\* ruleCalls for its write.  A rule created at clock value t has the key
\* RuleKeyOrder[t + 2] (`rule-${Date.now()}`), the stored rule of StoredRules
\* being older.
MaxRuleCalls == 2   \* calls between their read and their write

offRulesVars == <<pipeVars, dbTransactions, dbCategories, dbBudgets, stTransactions,
                  stRules, preview, uploadError, adding, recategorizing, resetting,
                  stCategories, applying, deleting, addingRule, parserVars>>

RuleIds(store) == { r.id : r \in store }

\* store.put(record) on a store keyed by id
PutRule(store, record) == { r \in store : r.id # record.id } \cup {record}

\* db.addRule(r) up to its addToStore: getRules, maxOrder
db_addRuleRead ==
    /\ now < MaxClock
    /\ now + 2 <= Len(RuleKeyOrder)
    /\ now' = now + 1
    /\ \E r \in RulePool :
         /\ r.id = RuleKeyOrder[now + 2]
         /\ ruleCalls' = ruleCalls \cup
              { [op |-> "add", ruleWithOrder |-> WithOrder(r, MaxOrder(dbRules) + 1)] }
    /\ UNCHANGED <<dbRules, offRulesVars>>

\* db.addRule: addToStore; store.add rejects a key that exists
db_addRuleWrite ==
    /\ \E c \in ruleCalls :
         /\ c.op = "add"
         /\ dbRules' = IF c.ruleWithOrder.id \in RuleIds(dbRules) THEN dbRules
                       ELSE dbRules \cup {c.ruleWithOrder}
         /\ ruleCalls' = ruleCalls \ {c}
    /\ UNCHANGED <<now, offRulesVars>>

\* the categories the rule form offers for a rule that is edited
EditedCategoryIds == {"cat-income"}

\* db.updateRule(r) up to its putToStore: getRules, find, existingRule?.order || 0
db_updateRuleRead ==
    /\ \E old \in dbRules, categoryId \in EditedCategoryIds :
         LET r == [id |-> old.id, conditionType |-> old.conditionType,
                   conditionValue |-> old.conditionValue, categoryId |-> categoryId]
         IN  ruleCalls' = ruleCalls \cup
               { [op |-> "update", ruleWithOrder |-> WithOrder(r, old.order)] }
    /\ UNCHANGED <<now, dbRules, offRulesVars>>

\* db.updateRule: putToStore
db_updateRuleWrite ==
    /\ \E c \in ruleCalls :
         /\ c.op = "update"
         /\ dbRules' = PutRule(dbRules, c.ruleWithOrder)
         /\ ruleCalls' = ruleCalls \ {c}
    /\ UNCHANGED <<now, offRulesVars>>

\* ids.splice(from, 1); ids.splice(to, 0, draggedId), positions from 1
Move(ids, from, to) ==
    LET without == [ k \in 1..(Len(ids) - 1) |-> IF k < from THEN ids[k] ELSE ids[k + 1] ]
    IN  [ k \in 1..Len(ids) |-> IF k < to THEN without[k]
                                 ELSE IF k = to THEN ids[from]
                                 ELSE without[k - 1] ]

\* Rules.onDropOnRow on the list of the stored rules, and db.reorderRules up
\* to its puts: getRules, rulesMap
db_reorderRulesRead ==
    /\ LET listed == getRules(dbRules)
           ids == [ k \in 1..Len(listed) |-> listed[k].id ]
       IN  \E from \in 1..Len(ids), to \in 1..Len(ids) :
             /\ from # to
             /\ ruleCalls' = ruleCalls \cup
                  { [op |-> "reorder", ids |-> Move(ids, from, to), rulesMap |-> dbRules] }
    /\ UNCHANGED <<now, dbRules, offRulesVars>>

\* puts that leave the order of the rules as it was read
reorderPutsKeepOrder(store, ids, rulesMap, k) ==
    { r \in store : r.id \notin RuleIds(rulesMap) } \cup
    { r \in rulesMap : \E j \in 1..Len(ids) : ids[j] = r.id }

\* ids.forEach: store.put({ ...rule, order: index + 1 }) for the ids of rulesMap
RECURSIVE reorderPuts(_, _, _, _)
reorderPuts(store, ids, rulesMap, k) ==
    IF k > Len(ids) THEN store
    ELSE IF \E r \in rulesMap : r.id = ids[k]
         THEN reorderPuts(PutRule(store, WithOrder(CHOOSE r \in rulesMap : r.id = ids[k], k)),
                          ids, rulesMap, k + 1)
         ELSE reorderPuts(store, ids, rulesMap, k + 1)

\* db.reorderRules: the puts, in one transaction
db_reorderRulesWrite ==
    /\ \E c \in ruleCalls :
         /\ c.op = "reorder"
         /\ dbRules' = reorderPuts(dbRules, c.ids, c.rulesMap, 1)
         /\ ruleCalls' = ruleCalls \ {c}
    /\ UNCHANGED <<now, offRulesVars>>

\* the rules store of an application that has started
InitRules ==
    /\ now = 0
    /\ AppReady

\* the calls, the next one possibly issued before the last one has written
NextRules ==
    \/ Cardinality(ruleCalls) < MaxRuleCalls /\ db_addRuleRead
    \/ db_addRuleWrite
    \/ Cardinality(ruleCalls) < MaxRuleCalls /\ db_updateRuleRead
    \/ db_updateRuleWrite
    \/ db_deleteRule
    \/ Cardinality(ruleCalls) < MaxRuleCalls /\ db_reorderRulesRead
    \/ db_reorderRulesWrite

SpecRules == InitRules /\ [][NextRules]_vars

\* the calls one after the other: each is issued when the last has resolved
NextRulesInTurn ==
    \/ ruleCalls = {} /\ db_addRuleRead
    \/ db_addRuleWrite
    \/ ruleCalls = {} /\ db_updateRuleRead
    \/ db_updateRuleWrite
    \/ ruleCalls = {} /\ db_deleteRule
    \/ ruleCalls = {} /\ db_reorderRulesRead
    \/ db_reorderRulesWrite

SpecRulesInTurn == InitRules /\ [][NextRulesInTurn]_vars

\* ------------------------------------------------- properties of one call
Started == pc # "idle"

\* the last batch has been merged into finalTransactions
Merged == pc \in {"loop", "done"} /\ batch # <<>>

BatchIndices == { batch[j].index : j \in 1..Len(batch) }

\* rules whose condition matches the description of input item k
MatchingRules(k) ==
    { j \in 1..Len(rules) :
        RuleMatches(rules[j], ToLowerCase(parsedTransactions[k].description)) }

HasIncome(cats) == \E c \in 1..Len(cats) : NameToLowerCase(cats[c].name) = "income"

\* the id of the category named "income", the sentinel when there is none
IncomeOrUncategorized(cats) ==
    IF HasIncome(cats)
    THEN cats[CHOOSE c \in 1..Len(cats) : NameToLowerCase(cats[c].name) = "income"].id
    ELSE Uncategorized

\* C1: in both paths an item some rule matches gets the categoryId of the
\* first matching rule of the list, categorizedByRule = true and
\* categorizedByAI = false, and is part of no classifier request; this stays
\* so until the call returns, whatever later rules match.
C1_FirstMatchWins ==
    Started =>
      \A k \in 1..Len(parsedTransactions) :
        MatchingRules(k) # {} =>
          LET first == CHOOSE j \in MatchingRules(k) : \A m \in MatchingRules(k) : j <= m
              t == finalTransactions[k]
          IN  /\ t # Hole
              /\ t.categoryId = rules[first].categoryId
              /\ t.categorizedByRule = TRUE
              /\ t.categorizedByAI = FALSE
              /\ k \notin sentToAI

\* a call has returned in which two rules with different categories match
\* one item while another item went to the classifier
C1_Witness ==
    /\ pc = "done"
    /\ requests > 0
    /\ \E k \in 1..Len(parsedTransactions) :
         \E a, b \in MatchingRules(k) :
           /\ a < b
           /\ rules[a].categoryId # rules[b].categoryId
           /\ finalTransactions[k].categoryId = rules[a].categoryId

\* C3: an inflow no rule matched whose classifier outcome is "no category"
\* (no result for its index, or the sentinel) ends with the id of the
\* category named income when there is one, and as cat-uncategorized only
\* when there is none.
C3_IncomeFallbackForInflows ==
    Merged =>
      \A j \in 1..Len(batch) :
        LET k == batch[j].index
            answer == MapGet(aiResults, k)
        IN  (batch[j].tx.amount > 0 /\ (answer = Null \/ answer = Uncategorized)) =>
              finalTransactions[k].categoryId = IncomeOrUncategorized(categories)

C5_ForeignIndexDiscarded ==
    [][ (pc = "fetching" /\ pc' = "loop") =>
          /\ Len(finalTransactions') = Len(finalTransactions)
          /\ \A k \in 1..Len(finalTransactions) :
               k \notin BatchIndices => finalTransactions'[k] = finalTransactions[k]
          /\ \A k \in BatchIndices :
               k \in DOMAIN aiResults' =>
                 /\ finalTransactions'[k].categoryId = aiResults'[k]
                 /\ finalTransactions'[k].categorizedByAI = TRUE ]_vars

\* a merged answer held the index of an item of another batch, with another
\* category than that item has, next to an entry for an index that was sent
C5_Witness ==
    /\ Merged
    /\ \E f \in DOMAIN aiResults :
         /\ f \notin BatchIndices
         /\ f \in 1..Len(finalTransactions)
         /\ f \in sentToAI
         /\ finalTransactions[f].categoryId # aiResults[f]
    /\ \E k \in BatchIndices :
         /\ k \in DOMAIN aiResults
         /\ finalTransactions[k].categoryId = aiResults[k]

\* for every answer of the model and every catalog: the Map the client builds
\* holds only entries of the answer with an id of the catalog, and an index
\* the answer gives only ids outside the catalog is no key of it
DroppedOutsideCatalog ==
    \A cats \in Catalogs : \A raw \in RawAnswers :
      LET m == ResultMap(ValidateAndFilterResults(raw, cats)) IN
      /\ \A x \in DOMAIN m :
           /\ m[x] \in CategoryIds(cats)
           /\ \E j \in 1..Len(raw) : raw[j].index = x /\ raw[j].categoryId = m[x]
      /\ \A j \in 1..Len(raw) :
           (\A h \in 1..Len(raw) :
              raw[h].index = raw[j].index => raw[h].categoryId \notin CategoryIds(cats))
             => raw[j].index \notin DOMAIN m

\* C6: a transaction with categorizedByAI = true has a categoryId of the
\* catalog handed to the pipeline: the endpoint drops every entry of the
\* model's answer whose id is outside the catalog, so the Map the client
\* gets holds no other id and the item of a dropped entry has no result.
C6_AiCategoryInCatalog ==
    /\ DroppedOutsideCatalog
    /\ \A x \in DOMAIN aiResults : aiResults[x] \in CategoryIds(categories)
    /\ \A k \in 1..Len(finalTransactions) :
         (finalTransactions[k] # Hole /\ finalTransactions[k].categorizedByAI) =>
           finalTransactions[k].categoryId \in CategoryIds(categories)

\* a call returned a transaction the classifier categorized
C6_Witness ==
    /\ pc = "done"
    /\ \E k \in 1..Len(finalTransactions) :
         /\ finalTransactions[k].categorizedByAI
         /\ finalTransactions[k].categoryId = "cat-groceries"
         /\ aiResults = (k :> "cat-groceries")

LastOutcome == IF outcomes = <<>> THEN "none" ELSE outcomes[Len(outcomes)]

\* Math.ceil(n / d)
CeilDiv(n, d) == (n + d - 1) \div d

\* C7: a non-2xx answer to a batch does not make the call fail; the batch
\* gets no classifier result and its items get the income fallback or
\* cat-uncategorized with categorizedByAI = false; and when the call returns
\* every batch has been requested and the array holds a transaction for
\* every input.
C7_NonSuccessIsNonFatal ==
    /\ pc = "failed" => LastOutcome \in {"reject", "badbody"}
    /\ (Merged /\ LastOutcome = "http") =>
         /\ aiResults = EmptyMap
         /\ \A j \in 1..Len(batch) :
              LET t == finalTransactions[batch[j].index] IN
              /\ t.categorizedByAI = FALSE
              /\ t.categoryId = IF batch[j].tx.amount > 0
                                THEN IncomeOrUncategorized(categories)
                                ELSE Uncategorized
    /\ pc = "done" =>
         /\ requests = CeilDiv(Len(transactionsForAI), batchSize)
         /\ Len(outcomes) = requests
         /\ sentToAI = { k \in 1..Len(parsedTransactions) : MatchingRules(k) = {} }
         /\ Len(returned) = Len(parsedTransactions)
         /\ \A k \in 1..Len(returned) : returned[k] # Hole

\* a call returned after its first batch was answered non-2xx and its second
\* batch was answered 200 with a category, the first item having got the
\* income fallback
C7_Witness ==
    /\ pc = "done"
    /\ outcomes = <<"http", "ok">>
    /\ Len(returned) = 2
    /\ returned[1].categoryId = "cat-income"
    /\ returned[1].categorizedByAI = FALSE
    /\ returned[2].categorizedByAI = TRUE

\* C8: after a batch call whose request rejected or whose body could not be
\* decoded the call has not failed: it is back at the loop (or has returned)
\* with the batch merged without classifier results and the earlier slots
\* still in the array.
C8_NetworkFailureIsDegraded ==
    LastOutcome \in {"reject", "badbody"} =>
      /\ pc \in {"loop", "done"}
      /\ returned # "rejected"
      /\ \A j \in 1..Len(batch) : finalTransactions[batch[j].index] # Hole

\* C9: when categorizeTransactions returns, the array has one defined
\* transaction per parsed row, element k carrying the date, description and
\* amount of row k.
C9_ImportReturnsAllInFileOrder ==
    (pc = "done" /\ mode = "import") =>
      /\ Len(returned) = Len(parsedTransactions)
      /\ \A k \in 1..Len(parsedTransactions) :
           /\ returned[k] # Hole
           /\ returned[k].date = parsedTransactions[k].date
           /\ returned[k].description = parsedTransactions[k].description
           /\ returned[k].amount = parsedTransactions[k].amount

\* an import of two different rows returned: the first went to the
\* classifier, the second was matched by a rule, and the answer named the
\* index of the second
C9_Witness ==
    /\ pc = "done"
    /\ mode = "import"
    /\ Len(returned) = 2
    /\ parsedTransactions[1] # parsedTransactions[2]
    /\ sentToAI = {1}
    /\ returned[2].categorizedByRule
    /\ LastOutcome = "ok"
    /\ 2 \in DOMAIN aiResults

\* ------------------------------------------- properties of the application
\* C2: a parsed row whose fingerprint is that of a transaction of the ledger
\* is not handed to categorizeTransactions (so it reaches no classifier call
\* and no preview), and addTransactions writes no new entry with a
\* fingerprint the ledger already holds, wherever the earlier import's
\* addTransactions stands.
C2_ReimportAddsNothing ==
    [][ /\ (pc = "idle" /\ pc' = "loop" /\ mode' = "import") =>
             \A k \in 1..Len(parsedTransactions') :
               Fingerprint(parsedTransactions'[k]) \notin Fingerprints(dbTransactions)
        /\ (adding.stage = "put" /\ adding'.stage = "read") =>
             \A t \in dbTransactions' :
               t.id \notin Ids(dbTransactions) =>
                 Fingerprint(t) \notin Fingerprints(dbTransactions) ]_vars

\* C10: recategorizeUncategorizedTransactions returns a list as long as its
\* input whose element k has the id, date, amount and description of input
\* element k, and the batchUpdateTransactions write that follows leaves the
\* set of ids of the ledger as it was.
C10_RecategorizationPreservesIdentity ==
    [][ /\ (mode = "recat" /\ pc = "loop" /\ pc' = "done") =>
             /\ Len(returned') = Len(parsedTransactions)
             /\ \A k \in 1..Len(parsedTransactions) :
                  /\ returned'[k] # Hole
                  /\ returned'[k].id = parsedTransactions[k].id
                  /\ returned'[k].date = parsedTransactions[k].date
                  /\ returned'[k].amount = parsedTransactions[k].amount
                  /\ returned'[k].description = parsedTransactions[k].description
        /\ (mode = "recat" /\ pc = "done" /\ pc' = "idle") =>
             Ids(dbTransactions') = Ids(dbTransactions) ]_vars

\* ------------------------------------------------------- properties of edits
FlagsExclusive(t) == ~(t.categorizedByRule /\ t.categorizedByAI)

\* C11: provenance flags are mutually exclusive.  Every step of import,
\* recategorization, rule application, category deletion and manual edit
\* leads to a state where no transaction of the preview or of the store has
\* both categorizedByRule and categorizedByAI true, and a manual category
\* edit leaves the edited transaction, in the store, in the DataProvider
\* state and in the preview, with both flags false.
AllFlagsExclusive ==
    /\ \A t \in dbTransactions \cup stTransactions : FlagsExclusive(t)
    /\ \A k \in 1..Len(preview) : FlagsExclusive(preview[k])

FlagsCleared(t) == ~t.categorizedByRule /\ ~t.categorizedByAI

C11_ProvenanceFlagsExclusive ==
    [][/\ AllFlagsExclusive'
       /\ \A t \in stTransactions, c \in CategoryIds(stCategories) :
            ( /\ c # t.categoryId
              /\ dbTransactions' = Put(dbTransactions, <<ManualEdit(t, c)>>)
              /\ stTransactions' = MapById(stTransactions, ManualEdit(t, c)) )
            => \A u \in dbTransactions' \cup stTransactions' :
                   u.id = t.id => FlagsCleared(u)
       /\ \A j \in 1..Len(preview), c \in CategoryIds(stCategories) :
            ( /\ c # preview[j].categoryId
              /\ preview' = EditPreview(preview, preview[j].id, c) )
            => FlagsCleared(preview'[j])]_vars

\* a stored transaction was moved by hand to a category the classifier never
\* answers, and the label a rule or the classifier gave another row is in
\* the store
C11_Witness ==
    /\ \E t \in dbTransactions \cap stTransactions :
         t.categoryId = "cat-dining" /\ FlagsCleared(t)
    /\ \E t \in dbTransactions : t.categorizedByAI \/ t.categorizedByRule

\* ------------------------------------------------- properties of the stores
\* C12: after db.init and any sequence of addCategory, updateCategory,
\* deleteCategory, clearAllData and importData calls, the categories store
\* holds a record with id 'cat-uncategorized'.
C12_ReservedCategoryExists == \E c \in dbCategories : c.id = Uncategorized

\* C13: importData(exportData()) leaves the transactions, categories, rules
\* and budgets stores with exactly the records they held, and getRules
\* returns the rules in the same order.
C13_ExportImportRoundTrip ==
    [][RoundTrip => /\ storeVars' = storeVars
                    /\ getRules(dbRules') = getRules(dbRules)]_vars

\* C14: transaction ids are globally unique across import invocations, so
\* the put of addTransactions never overwrites a ledger entry that has a
\* different fingerprint.
C14_PutOverwritesNoOtherEntry ==
    [][(adding.stage = "put" /\ adding'.stage = "read") =>
          \A t \in dbTransactions, k \in 1..Len(adding.newTransactions) :
              adding.newTransactions[k].id = t.id =>
                  Fingerprint(adding.newTransactions[k]) = Fingerprint(t)]_vars

\* ------------------------------------------------- properties of the parser
Parsed(call) == parseOutput.stage = "done" /\ parseInput.call = call

\* C15: the parser rejects a CSV with fewer than 2 non-blank lines, a header
\* without a date cell, without a description cell, without amount cells,
\* and any CSV or OFX file from which zero transactions were parsed; it
\* never resolves with an empty list.
C15_ParserReportsErrors ==
    Parsed("parseFile") =>
        /\ parseInput.file.label # "good" => ~parseOutput.ok
        /\ ~(parseOutput.ok /\ parseOutput.value = <<>>)

\* the year of a D/D/D string: the third group, 2000 added below 100
YearOf(s) == IF s.g3 < 100 THEN s.g3 + 2000 ELSE s.g3

\* midnight of a calendar day in the local timezone
LocalMidnight(y, m, d, tz) == ADate(DaysFromCivil(y, m, d) * 24 - tz)

C17_DatesAreMidnightUTC ==
    (Parsed("parseFile") /\ parseOutput.ok) =>
        \A k \in 1..Len(parseOutput.value) :
            LET date == parseOutput.value[k].date IN
            /\ date.hour = 0
            /\ parseInput.file.days # <<>> =>
                 /\ date.year = parseInput.file.days[k].year
                 /\ date.month = parseInput.file.days[k].month
                 /\ date.day = parseInput.file.days[k].day

\* ------------------------------------------- properties of storage failures
\* C18: when a store call of a DataProvider operation fails, the in-memory
\* transactions, categories and rules are what they were when the
\* operation started.
C18_FailureLeavesMemoryUntouched ==
    /\ applying.stage = "failed" => Memory = applying.before
    /\ deleting.stage = "failed" => Memory = deleting.before

\* ---------------------------------------------- properties of the batch loop
\* C19: the batches of one invocation are strictly sequential: at most one
\* classifier request is outstanding, and while the request for a batch is
\* outstanding every earlier batch has been answered, merged into the result
\* array and reported through onProgress.
C19_BatchesStrictlySequential ==
    /\ requests - Len(outcomes) \in {0, 1}
    /\ (requests - Len(outcomes) = 1) <=> (pc = "fetching")
    /\ pc = "fetching" =>
         /\ Len(progress) = requests
         /\ progress[Len(progress)][1] =
              Len(parsedTransactions) - Len(transactionsForAI) + i
         /\ \A k \in 1..i : finalTransactions[transactionsForAI[k].index] # Hole

\* the request for a second batch is outstanding
C19_Witness ==
    /\ pc = "fetching"
    /\ requests = 2
    /\ Len(outcomes) = 1

\* batches whose loop body ran to its end
Completed == { k \in 1..Len(outcomes) : outcomes[k] \in {"ok", "http"} }

\* C20: for n inputs of which r are rule-matched and the rest form b batches,
\* onProgress is called first with (r, n) before any classifier request and
\* then once after each batch; the processed values never decrease and never
\* exceed n; an invocation that returns has made 1 + b calls, the last one
\* with (n, n).
C20_ProgressReporting ==
    LET n == Len(parsedTransactions)
        r == n - Len(transactionsForAI)
        b == CeilDiv(Len(transactionsForAI), batchSize)
    IN  pc # "idle" =>
          /\ Len(progress) = 1 + Cardinality(Completed)
          /\ progress[1] = <<r, n>>
          /\ \A k \in 1..Len(progress) : progress[k][2] = n /\ progress[k][1] <= n
          /\ \A k \in 1..(Len(progress) - 1) : progress[k][1] <= progress[k + 1][1]
          /\ pc = "done" => /\ Len(progress) = 1 + b
                            /\ progress[Len(progress)] = <<n, n>>

\* an invocation with two batches has returned
C20_Witness ==
    /\ pc = "done"
    /\ Len(progress) = 3
    /\ progress[1][1] < progress[2][1]

\* ------------------------------------------------ properties of the batches
\* the last position of the unmatched list that request j carries
BatchEnd(j) ==
    IF j * batchSize > Len(transactionsForAI) THEN Len(transactionsForAI) ELSE j * batchSize

\* C21: the m rule-unmatched items are sent in ceil(m / s) requests; request
\* j carries the items at the positions (j-1)*s+1 .. min(j*s, m) of the
\* unmatched list, in input order and each with its input index, so every
\* unmatched item is sent once, no request has more than s items and no
\* rule-matched item is sent.
C21_BatchPartition ==
    LET m == Len(transactionsForAI)
        s == batchSize
    IN  pc # "idle" =>
          /\ s >= 1
          /\ m = Cardinality({ k \in 1..Len(parsedTransactions) : MatchingRules(k) = {} })
          /\ \A k \in 1..m :
               /\ MatchingRules(transactionsForAI[k].index) = {}
               /\ transactionsForAI[k].tx = parsedTransactions[transactionsForAI[k].index]
          /\ \A k \in 1..(m - 1) :
               transactionsForAI[k].index < transactionsForAI[k + 1].index
          /\ requests <= CeilDiv(m, s)
          /\ sentToAI = { transactionsForAI[k].index : k \in 1..BatchEnd(requests) }
          /\ pc = "fetching" =>
               /\ requests >= 1
               /\ Len(batch) \in 1..s
               /\ batch = SubSeq(transactionsForAI,
                                 (requests - 1) * s + 1, BatchEnd(requests))
          /\ pc = "done" => requests = CeilDiv(m, s)

\* a call whose two unmatched rows went out in two requests has returned
C21_Witness ==
    /\ pc = "done"
    /\ requests = 2
    /\ sentToAI = {1, 2}

\* ------------------------------------------------- properties of the ledger
\* C22: no two transactions of the transactions store have the same
\* fingerprint (date, amount, normalized description).
C22_NoDuplicateFingerprints ==
    \A t, u \in dbTransactions : Fingerprint(t) = Fingerprint(u) => t = u

\* -------------------------------------------- properties of the rules store
\* C23: no two stored rules have the same order value, whatever the sequence
\* of addRule, updateRule, deleteRule and reorderRules calls and however
\* the reads and writes of two calls interleave.
C23_OrdersDistinct ==
    \A a, b \in dbRules : a.order = b.order => a = b

\* the ids of a list of rules
IdsOf(list) == [ k \in 1..Len(list) |-> list[k].id ]

\* the fields of a rule that a reorder leaves alone
RuleContent(r) == <<r.id, r.conditionType, r.conditionValue, r.categoryId>>

\* ids lists every stored rule once
IsPermutationOfStored(ids, store) ==
    /\ { ids[k] : k \in 1..Len(ids) } = RuleIds(store)
    /\ Len(ids) = Cardinality(store)

\* C24: when reorderRules(ids) has written, ids being a permutation of the
\* ids of the stored rules, the rule at position k of ids has order k,
\* getRules returns the rules in the order of ids, and the id, condition
\* and category of every rule are what they were.
C24_ReorderSetsOrderFromPosition ==
    [][\A c \in ruleCalls \ ruleCalls' :
         (c.op = "reorder" /\ IsPermutationOfStored(c.ids, dbRules)) =>
            /\ \A k \in 1..Len(c.ids) :
                 \E r \in dbRules' : r.id = c.ids[k] /\ r.order = k
            /\ IdsOf(getRules(dbRules')) = c.ids
            /\ { RuleContent(r) : r \in dbRules' } = { RuleContent(r) : r \in dbRules }]_vars

\* a reorder has moved the newest of three rules to the front
C24_Witness ==
    /\ ruleCalls = {}
    /\ Cardinality(dbRules) = 3
    /\ IdsOf(getRules(dbRules)) = <<"r3", "r1", "r2">>
    /\ \A k \in 1..3 : getRules(dbRules)[k].order = k

\* --------------------------------------------------- properties of parseCSV
\* the body lines of a file whose header has the date in its first and the
\* description in its second cell that have as many cells as the header, a
\* date parseDate reads and a description
ValidRows(file, hint, env) ==
    LET lines == SelectSeq(file.content, LAMBDA line : Trim(line) # <<>>)
        width == Len(Split(lines[1], {","}))
        IsValid(line) == /\ Len(Cells(line)) >= width
                         /\ parseDate(Cells(line)[1], hint, env).valid
                         /\ Cells(line)[2] # <<>>
    IN  SelectSeq(Tail(lines), IsValid)

\* C25: for a CSV whose header passes the column detection and that has a
\* valid row, parseCSV does not fail and returns, in file order, exactly the
\* rows with as many cells as the header, a date parseDate reads and a
\* description.
C25_RowDefectsOnlyReduceYield ==
    ( /\ Parsed("parseFile")
      /\ parseInput.file.extension = "csv"
      /\ parseInput.file.label = "good" ) =>
        LET rows == ValidRows(parseInput.file, parseInput.hint, parseInput.env) IN
        /\ parseOutput.ok
        /\ Len(parseOutput.value) = Len(rows)
        /\ \A k \in 1..Len(rows) : parseOutput.value[k].description = Cells(rows[k])[2]

\* -------------------------------------------------- properties of parseDate
\* a call of parseDate under the hint auto for a string D/D/D
ParsedAuto ==
    /\ Parsed("parseDate")
    /\ parseInput.hint = "auto"
    /\ parseInput.dateStr.kind = "numeric"

\* the same call in a locale that writes the fields in the other order
OtherLocale ==
    parseDate(parseInput.dateStr.text, "auto",
              [parseInput.env EXCEPT !.dayFirst = ~parseInput.env.dayFirst])

\* what the claim says of the strings whose third group is in years
DaySignalBeatsLocale(years) ==
    (ParsedAuto /\ parseInput.dateStr.g3 \in years) =>
        LET s == parseInput.dateStr
            result == parseOutput.value[1]
        IN  /\ (s.g1 > 12 /\ ValidDay(s.g3, s.g2, s.g1))
                  => result = LocalMidnight(s.g3, s.g2, s.g1, parseInput.env.tz)
            /\ OtherLocale # result => s.g1 <= 12

C27_DeletedRuleStaysDeleted ==
    [][\A r \in dbRules' :
         r.id \notin RuleIds(dbRules) =>
            \E c \in ruleCalls \ ruleCalls' : c.op = "add" /\ c.ruleWithOrder.id = r.id]_vars

\* ------------------------------------------ properties of recategorization
\* C28: a transaction that was uncategorized when the recategorization read
\* the store and that the user has given a category since is in the store
\* unchanged, with the user's category and both flags false, after the
\* recategorization has written its results.
C28_RecategorizationKeepsManualEdits ==
    [][(pc = "done" /\ mode = "recat" /\ recategorizing'.stage = "read") =>
          \A t \in dbTransactions :
              ( /\ \E k \in 1..Len(parsedTransactions) : parsedTransactions[k].id = t.id
                /\ ~IsUncategorized(t)
                /\ FlagsCleared(t) )
              => t \in dbTransactions']_vars

\* ---------------------------------------------- properties of the catalog
\* C29: every stored transaction has a categoryId that is null,
\* 'cat-uncategorized', or the id of a category in the categories store.
C29_CategoryReferencesValid ==
    \A t \in dbTransactions :
        t.categoryId \in {Null, Uncategorized} \cup { c.id : c \in dbCategories }

\* ------------------------------------------ properties of a refused import
\* C30: when importData fails while writing one of the four collections, the
\* transactions, categories, rules and budgets stores hold the records they
\* held before the call.
C30_FailedImportLosesNothing ==
    [][\A data \in FaultyPayloads :
          LET after == importDataOutcome(data, now) IN
          ( /\ after.rejected
            /\ dbTransactions' = after.transactions
            /\ dbCategories' = after.categories
            /\ dbRules' = after.rules
            /\ dbBudgets' = after.budgets )
          => UNCHANGED storeVars]_vars

====
